---------------------------- MODULE Spec2Model ----------------------------
(***************************************************************************)
(* A model of the gopublic tunnelling client.                              *)
(*                                                                         *)
(*  - The event bus (package events): Subscribe, Unsubscribe, Publish,     *)
(*    Close and the consumers' receives.  Each subscriber endpoint is a    *)
(*    bounded Go channel; Publish holds the bus lock for the whole         *)
(*    fan-out and sends with select/default.                               *)
(*  - The statistics engine (package stats): the counters, the sample      *)
(*    ring and Snapshot.                                                   *)
(*                                                                         *)
(*  - The inspector store (package inspector): InMemoryStore and the      *)
(*    package-level exchange list.                                         *)
(*  - The reconnect loop (StartWithReconnect) around the tunnel session    *)
(*    (Tunnel.Start, Tunnel.handleSession).                                *)
(*  - One tunnel session with its proxy workers (Tunnel.Start,             *)
(*    Tunnel.handleSession, Tunnel.proxyStream).                           *)
(*  - The inspector's HTTP API: the /api/exchanges handler against         *)
(*    AddExchange under the package lock, and the two replay routes.       *)
(*  - The protocol messages and their JSON encoding (package protocol).    *)
(*  - The terminal dashboard (package tui): Update, handleEvent and the    *)
(*    waitForEvent commands on its bus endpoint.                           *)
(*  - The start command (package config: startCmd) around the reconnect    *)
(*    loop.                                                                *)
(*                                                                         *)
(* Every subsystem has its own specification (SpecBus, SpecStats,          *)
(* SpecRing, SpecStore, SpecReconn, SpecTunnel, SpecInspect, SpecWire,     *)
(* SpecReplay, SpecTui, SpecTuiLoop, SpecStart); the variables of the      *)
(* other subsystems stay as constructed.                                   *)
(***************************************************************************)
EXTENDS Integers, Sequences, FiniteSets, TLC

-----------------------------------------------------------------------------
(* Bounds of the model. *)

\* Number of goroutines calling Publish concurrently.
NumProcs == 2
\* Number of Subscribe calls over the lifetime of a bus.
MaxSubscribes == 2
\* Largest per-subscriber buffer given to NewBusWithBuffer.
MaxBuffer == 2
\* Number of Publish calls over the lifetime of a bus.
MaxPublish == 3

-----------------------------------------------------------------------------
(* Helpers on sequences. *)

Range(s) == { s[i] : i \in 1..Len(s) }

InSeq(x, s) == \E i \in 1..Len(s) : s[i] = x

\* s without its elements equal to x, order kept.
RECURSIVE Without(_, _)
Without(s, x) ==
    IF s = <<>> THEN <<>>
    ELSE IF Head(s) = x THEN Without(Tail(s), x)
         ELSE <<Head(s)>> \o Without(Tail(s), x)

\* s is a subsequence of t: s is t with some elements left out.
RECURSIVE IsSubseq(_, _)
IsSubseq(s, t) ==
    IF s = <<>> THEN TRUE
    ELSE IF t = <<>> THEN FALSE
    ELSE IF Head(s) = Head(t) THEN IsSubseq(Tail(s), Tail(t))
         ELSE IsSubseq(s, Tail(t))

NoDuplicates(s) == \A i, j \in 1..Len(s) : i # j => s[i] # s[j]

-----------------------------------------------------------------------------
(* State of the event bus. *)

VARIABLES
    subscribers,   \* Bus.subscribers: the endpoints fan-out goes to, in subscribe order
    closed,        \* Bus.closed
    bufferSize,    \* Bus.bufferSize: slots of every endpoint made by Subscribe
    chans,         \* the endpoints made so far: [buf: queued events, closed: BOOLEAN]
    nchans,        \* number of endpoints made (endpoint ids are 1..nchans)
    mu,            \* Bus.mu: 0 when free, else the goroutine holding it
    pc,            \* per goroutine: "idle", or "fanout" inside Publish
    targets,       \* per goroutine in Publish: the subscribers list being ranged over
    pos,           \* per goroutine in Publish: index of the next endpoint to send to
    ev,            \* per goroutine in Publish: the event being published
    npublished,    \* number of Publish calls so far; events are numbered in that order
    received,      \* per endpoint: the events its consumer has taken, in order
    roomAt,        \* per endpoint: events whose fan-out found room in its queue
    fullAt,        \* per endpoint: events whose fan-out found its queue full
    panicked,      \* "none", or the Go runtime panic a goroutine has hit
    closedAt,      \* per endpoint: npublished when it was closed, -1 while open
    atClose        \* <<nchans, npublished>> at the first Close(), <<-1, -1>> before

busVars == << subscribers, closed, bufferSize, chans, nchans, mu, pc, targets,
              pos, ev, npublished, received, roomAt, fullAt, panicked,
              closedAt, atClose >>

VARIABLES
    totalConns,     \* Stats.totalConns
    openConns,      \* Stats.openConns
    totalRequests,  \* Stats.totalRequests
    totalBytes,     \* Stats.totalBytes
    requestTimes,   \* Stats.requestTimes: the sample ring, oldest first
    maxSamples,     \* Stats.maxSamples
    serverLatency,  \* Stats.serverLatency
    startTime,      \* Stats.startTime
    now,            \* the wall clock read by time.Now()
    ret,            \* the Snapshot the last operation returned, or "none"
    recorded,       \* every duration recorded since creation or the last reset
    sop             \* the last step: the operation called, or "Tick"

statsVars == << totalConns, openConns, totalRequests, totalBytes, requestTimes,
                maxSamples, serverLatency, startTime, now, ret, recorded, sop >>

VARIABLES
    exchanges,     \* InMemoryStore.exchanges, newest first: [ID, Duration, Request]
    nextID,        \* InMemoryStore.nextID
    maxSize,       \* InMemoryStore.maxSize
    storeMu,       \* InMemoryStore.mu: [writer: 0 or a goroutine, readers: goroutines]
    heap,          \* the HTTPRequest objects exchanges point to: address -> Method
    spc,           \* per goroutine: "idle" or its place inside a store method
    sarg,          \* per goroutine: the argument of the call it is in
    sret,          \* what the store call that returned last returned: [op, by, ...]
    added,         \* the IDs Add has assigned, in the order it assigned them
    sinceClear,    \* the IDs Add has inserted since the last Clear, oldest first
    cleared,       \* whether Clear has been called
    pkgExchanges,  \* package inspector: var exchanges, newest first
    pkgNextID,     \* package inspector: var nextID
    pkgAdded       \* the IDs AddExchange and AddRequest have assigned, in order

storeVars == << exchanges, nextID, maxSize, storeMu, heap, spc, sarg, sret,
                added, sinceClear, cleared, pkgExchanges, pkgNextID, pkgAdded >>

VARIABLES
    cfg,             \* the ReconnectConfig given to StartWithReconnect
    delay,           \* StartWithReconnect: the wait before the next retry
    attempts,        \* StartWithReconnect: session attempts that have ended
    rpc,             \* StartWithReconnect: "check", "session", "ended", "wait" or "done"
    sess,            \* the session: "Closed", "Dialing", "Handshaking" or "Serving"
    sessErr,         \* the error the last session returned, "none" before the first
    ctxErr,          \* ctx.Err(): "none" until the cancellation signal fires
    result,          \* what StartWithReconnect returned: [kind, err], kind "running" before
    waits,           \* the waits the loop has scheduled, in order
    started,         \* number of session attempts started
    startedAtCancel  \* started when the cancellation signal fired, -1 before

reconnVars == << cfg, delay, attempts, rpc, sess, sessErr, ctxErr, result,
                 waits, started, startedAtCancel >>

VARIABLES
    tpc,        \* Start and handleSession: the statement the session is at
    control,    \* what was written to, read from and done with the control stream
    initResp,   \* handleSession: resp, "none" before it is decoded
    startErr,   \* the error Start returned, "none" before it returns
    printed,    \* the lines handleSession printed
    accepted,   \* number of inbound streams session.Accept has returned
    worker,     \* per inbound stream: the proxyStream goroutine serving it
    ServerAddr, \* Tunnel.ServerAddr, a string as the sequence of its pieces
    conn,       \* the connection to the server: [transport, state]
    scheme      \* handleSession: the scheme of the printed URLs, "none" before

tunnelVars == << tpc, control, initResp, startErr, printed, accepted, worker,
                ServerAddr, conn, scheme >>

VARIABLES
    pkgMu,      \* package inspector: var mu, [writer: 0 or a task, readers: tasks]
    hpc,        \* per HTTP client: where the /api/exchanges handler serving it is
    apc         \* per proxy worker: where its AddExchange call is

inspectVars == << pkgMu, hpc, apc >>

VARIABLES
    sent,       \* the protocol message given to the JSON encoder
    encoded,    \* the JSON object the encoder wrote, "none" before
    decoded     \* the message the JSON decoder filled in, "none" before

wireVars == << sent, encoded, decoded >>

VARIABLES
    localPort,  \* package inspector: var localPort
    replayReq,  \* the replay request: [Method, ID]
    upstreamUp, \* whether the local service answers client.Do
    outcome     \* per route: what the handler answered, Status 0 before

replayVars == << localPort, replayReq, upstreamUp, outcome >>

VARIABLES
    model,      \* package tui: the Model the program holds
    eventSub,   \* Model.eventSub, the bus endpoint: [buf, closed]
    prog,       \* the tea.Program: [waits: waitForEvent commands running,
                \*   inflight: messages they returned, last, quit]
    delivered,  \* every event the bus has put on the endpoint, in order
    applied     \* every event handleEvent has been called with, in order

tuiVars == << model, eventSub, prog, delivered, applied >>

VARIABLES
    startCmd    \* the start command: its inputs, where it is, its exit status

startVars == << startCmd >>

vars == << busVars, statsVars, storeVars, reconnVars, tunnelVars, inspectVars,
           wireVars, replayVars, tuiVars, startVars >>

\* What the steps of one subsystem leave alone: the other subsystems.
outsideBus == << statsVars, storeVars, reconnVars, tunnelVars, inspectVars,
                 wireVars, replayVars, tuiVars, startVars >>
outsideStats == << busVars, storeVars, reconnVars, tunnelVars, inspectVars,
                   wireVars, replayVars, tuiVars, startVars >>
outsideStore == << busVars, statsVars, reconnVars, tunnelVars, inspectVars,
                   wireVars, replayVars, tuiVars, startVars >>
outsideReconn == << busVars, statsVars, storeVars, tunnelVars, inspectVars,
                    wireVars, replayVars, tuiVars, startVars >>
\* The tunnel's workers record into the package-level inspector list, and the
\* inspector's handlers read it: the store is framed by each step itself.
outsideTunnel == << busVars, statsVars, reconnVars, inspectVars, wireVars,
                    replayVars, tuiVars, startVars >>
outsideInspect == << busVars, statsVars, reconnVars, tunnelVars, wireVars,
                     replayVars, tuiVars, startVars >>
outsideWire == << busVars, statsVars, storeVars, reconnVars, tunnelVars,
                  inspectVars, replayVars, tuiVars, startVars >>
outsideReplay == << busVars, statsVars, storeVars, reconnVars, tunnelVars,
                    inspectVars, wireVars, tuiVars, startVars >>
outsideTui == << busVars, statsVars, storeVars, reconnVars, tunnelVars,
                 inspectVars, wireVars, replayVars, startVars >>
\* The start command sets the inspector's local port and runs the reconnect
\* loop: each of its steps frames those two itself.
outsideStart == << busVars, statsVars, storeVars, tunnelVars, inspectVars,
                   wireVars, tuiVars >>

Procs == 1..NumProcs
ChanIds == 1..MaxSubscribes
Made == 1..nchans

\* The publish order: events are numbered as their Publish calls take the lock.
Published == [ i \in 1..npublished |-> i ]

\* Everything ever enqueued on endpoint c, in queue order: what its consumer
\* has taken followed by what is still queued.
Accepted(c) == received[c] \o chans[c].buf

\* SubscriberCount(): len(b.subscribers).
SubscriberCount == Len(subscribers)

\* NewBusWithBuffer(n).
NewBusWithBuffer(n) ==
    /\ subscribers = <<>>
    /\ closed = FALSE
    /\ bufferSize = n
    /\ chans = [ c \in ChanIds |-> [buf |-> <<>>, closed |-> FALSE] ]
    /\ nchans = 0
    /\ mu = 0
    /\ pc = [ p \in Procs |-> "idle" ]
    /\ targets = [ p \in Procs |-> <<>> ]
    /\ pos = [ p \in Procs |-> 1 ]
    /\ ev = [ p \in Procs |-> 0 ]
    /\ npublished = 0
    /\ received = [ c \in ChanIds |-> <<>> ]
    /\ roomAt = [ c \in ChanIds |-> {} ]
    /\ fullAt = [ c \in ChanIds |-> {} ]
    /\ panicked = "none"
    /\ closedAt = [ c \in ChanIds |-> -1 ]
    /\ atClose = <<-1, -1>>

InitBus == \E n \in 1..MaxBuffer : NewBusWithBuffer(n)

-----------------------------------------------------------------------------
(* Operations of the event bus. *)

\* close(ch) on every endpoint of set cs.
CloseAll(cs) ==
    [ c \in ChanIds |-> IF c \in cs THEN [chans[c] EXCEPT !.closed = TRUE]
                        ELSE chans[c] ]

\* The Go runtime panics on close of a closed channel.
ClosePanic(cs) ==
    IF \E c \in cs : chans[c].closed THEN "close of closed channel" ELSE panicked

\* A bus whose operations do not take the lock.
LockIgnored == TRUE

\* Lock(): the caller gets the bus lock when no goroutine holds it.  An
\* operation that takes the lock, runs without suspending and releases it is
\* one step; Subscribe, Unsubscribe and Close are such steps of any goroutine
\* that is not inside Publish.
LockFree == mu = 0

\* Subscribe that does not look at the closed flag.
SubscribeIgnoringClosed ==
    /\ LockFree
    /\ nchans < MaxSubscribes
    /\ LET c == nchans + 1 IN
       /\ nchans' = c
       /\ chans' = [chans EXCEPT ![c] = [buf |-> <<>>, closed |-> FALSE]]
       /\ subscribers' = Append(subscribers, c)
    /\ UNCHANGED << closed, bufferSize, mu, pc, targets, pos, ev, npublished,
                    received, roomAt, fullAt, panicked, closedAt, atClose >>
    /\ UNCHANGED outsideBus

\* Subscribe(): make an endpoint with bufferSize slots; on a closed bus return
\* it closed and unregistered, else append it to the subscribers list.
Subscribe ==
    /\ LockFree
    /\ nchans < MaxSubscribes
    /\ LET c == nchans + 1 IN
       /\ nchans' = c
       /\ IF closed
          THEN /\ chans' = [chans EXCEPT ![c] = [buf |-> <<>>, closed |-> TRUE]]
               /\ closedAt' = [closedAt EXCEPT ![c] = npublished]
               /\ subscribers' = subscribers
          ELSE /\ chans' = [chans EXCEPT ![c] = [buf |-> <<>>, closed |-> FALSE]]
               /\ closedAt' = closedAt
               /\ subscribers' = Append(subscribers, c)
    /\ UNCHANGED << closed, bufferSize, mu, pc, targets, pos, ev, npublished,
                    received, roomAt, fullAt, panicked, atClose >>
    /\ UNCHANGED outsideBus

\* Unsubscribe that closes ch but cuts the last entry off the list instead of
\* the entry of ch.
UnsubscribeDropLast(c) ==
    /\ LockFree
    /\ c \in Made
    /\ IF InSeq(c, subscribers)
       THEN /\ subscribers' = SubSeq(subscribers, 1, Len(subscribers) - 1)
            /\ chans' = CloseAll({c})
            /\ panicked' = ClosePanic({c})
            /\ closedAt' = [closedAt EXCEPT ![c] = npublished]
       ELSE UNCHANGED << subscribers, chans, panicked, closedAt >>
    /\ UNCHANGED << closed, bufferSize, nchans, mu, pc, targets, pos, ev,
                    npublished, received, roomAt, fullAt, atClose >>
    /\ UNCHANGED outsideBus

\* Unsubscribe(ch): when ch is registered, remove it from the list and close
\* it; otherwise nothing.
Unsubscribe(c) ==
    /\ LockFree
    /\ c \in Made
    /\ IF InSeq(c, subscribers)
       THEN /\ subscribers' = Without(subscribers, c)
            /\ chans' = CloseAll({c})
            /\ panicked' = ClosePanic({c})
            /\ closedAt' = [closedAt EXCEPT ![c] = npublished]
       ELSE UNCHANGED << subscribers, chans, panicked, closedAt >>
    /\ UNCHANGED << closed, bufferSize, nchans, mu, pc, targets, pos, ev,
                    npublished, received, roomAt, fullAt, atClose >>
    /\ UNCHANGED outsideBus

\* Close(): mark the bus closed, close every registered endpoint and drop
\* the list.
Close ==
    /\ LockFree
    /\ closed' = TRUE
    /\ chans' = CloseAll(Range(subscribers))
    /\ panicked' = ClosePanic(Range(subscribers))
    /\ subscribers' = <<>>
    /\ closedAt' = [ c \in ChanIds |->
                       IF InSeq(c, subscribers) THEN npublished ELSE closedAt[c] ]
    /\ atClose' = IF closed THEN atClose ELSE <<nchans, npublished>>
    /\ UNCHANGED << bufferSize, nchans, mu, pc, targets, pos, ev, npublished,
                    received, roomAt, fullAt >>
    /\ UNCHANGED outsideBus

\* Publish(event), entry: take the lock; on a closed bus return at once,
\* else start ranging over the subscribers list.
PublishBegin(p) ==
    /\ pc[p] = "idle"
    /\ LockFree
    /\ npublished < MaxPublish
    /\ npublished' = npublished + 1
    /\ IF closed
       THEN UNCHANGED << mu, pc, targets, pos, ev >>
       ELSE /\ mu' = p
            /\ pc' = [pc EXCEPT ![p] = "fanout"]
            /\ targets' = [targets EXCEPT ![p] = subscribers]
            /\ pos' = [pos EXCEPT ![p] = 1]
            /\ ev' = [ev EXCEPT ![p] = npublished + 1]
    /\ UNCHANGED << subscribers, closed, bufferSize, chans, nchans, received,
                    roomAt, fullAt, panicked, closedAt, atClose >>
    /\ UNCHANGED outsideBus

\* TrySend that makes room in a full queue by evicting its oldest event.
TrySendEvictOldest(ch, e) ==
    IF Len(ch.buf) < bufferSize THEN [ch EXCEPT !.buf = Append(@, e)]
    ELSE [ch EXCEPT !.buf = Append(Tail(@), e)]

\* TrySend that puts the event at the front of the queue.
TrySendFront(ch, e) ==
    IF Len(ch.buf) < bufferSize THEN [ch EXCEPT !.buf = <<e>> \o @] ELSE ch

\* TrySend whose room check is off by one: the last slot is never used.
TrySendOffByOne(ch, e) ==
    IF Len(ch.buf) + 1 < bufferSize THEN [ch EXCEPT !.buf = Append(@, e)] ELSE ch

\* The non-blocking send of Publish's loop body on queue state ch:
\* select { case ch <- event: default: }.
TrySend(ch, e) ==
    IF Len(ch.buf) < bufferSize THEN [ch EXCEPT !.buf = Append(@, e)] ELSE ch

\* Publish(event), one iteration of the loop: offer the event to the next
\* endpoint.  A send on a closed channel panics.
PublishSend(p) ==
    /\ pc[p] = "fanout"
    /\ pos[p] <= Len(targets[p])
    /\ LET c == targets[p][pos[p]]
           e == ev[p]
       IN IF chans[c].closed
          THEN /\ panicked' = "send on closed channel"
               /\ UNCHANGED << chans, roomAt, fullAt >>
          ELSE /\ chans' = [chans EXCEPT ![c] = TrySend(chans[c], e)]
               /\ IF Len(chans[c].buf) < bufferSize
                  THEN /\ roomAt' = [roomAt EXCEPT ![c] = @ \cup {e}]
                       /\ fullAt' = fullAt
                  ELSE /\ fullAt' = [fullAt EXCEPT ![c] = @ \cup {e}]
                       /\ roomAt' = roomAt
               /\ panicked' = panicked
    /\ pos' = [pos EXCEPT ![p] = @ + 1]
    /\ UNCHANGED << subscribers, closed, bufferSize, nchans, mu, pc, targets,
                    ev, npublished, received, closedAt, atClose >>
    /\ UNCHANGED outsideBus

\* Publish(event), exit: the loop is over, release the lock.
PublishEnd(p) ==
    /\ pc[p] = "fanout"
    /\ pos[p] > Len(targets[p])
    /\ mu' = 0
    /\ pc' = [pc EXCEPT ![p] = "idle"]
    /\ targets' = [targets EXCEPT ![p] = <<>>]
    /\ pos' = [pos EXCEPT ![p] = 1]
    /\ ev' = [ev EXCEPT ![p] = 0]
    /\ UNCHANGED << subscribers, closed, bufferSize, chans, nchans, npublished,
                    received, roomAt, fullAt, panicked, closedAt, atClose >>
    /\ UNCHANGED outsideBus

\* A consumer's receive on endpoint c: event, ok := <-sub with a queued event.
Receive(c) ==
    /\ c \in Made
    /\ chans[c].buf # <<>>
    /\ received' = [received EXCEPT ![c] = Append(@, Head(chans[c].buf))]
    /\ chans' = [chans EXCEPT ![c].buf = Tail(@)]
    /\ UNCHANGED << subscribers, closed, bufferSize, nchans, mu, pc, targets,
                    pos, ev, npublished, roomAt, fullAt, panicked, closedAt,
                    atClose >>
    /\ UNCHANGED outsideBus

\* What a receive on endpoint c reports as ok = false: closed and drained.
ReadsClosed(c) == chans[c].closed /\ chans[c].buf = <<>>

NextBus ==
    \/ Subscribe
    \/ \E c \in ChanIds : Unsubscribe(c)
    \/ Close
    \/ \E p \in Procs : PublishBegin(p)
    \/ \E p \in Procs : PublishSend(p)
    \/ \E p \in Procs : PublishEnd(p)
    \/ \E c \in ChanIds : Receive(c)


-----------------------------------------------------------------------------
(* Properties of the event bus. *)

\* The events endpoint c has been offered by a fan-out.
Offered(c) == roomAt[c] \cup fullAt[c]

\* C1: Publish never blocks and never fails whatever the state of the
\* subscribers' queues: inside a fan-out the next send (or the return) is
\* always possible and no goroutine panics; an event that finds an endpoint's
\* queue full is dropped for that endpoint, and every endpoint whose queue
\* has room gets it, however many publishes follow the one that filled a
\* queue.
C1_PublishNeverBlocks ==
    /\ panicked = "none"
    /\ \A p \in Procs :
          pc[p] = "fanout" =>
             IF pos[p] <= Len(targets[p]) THEN ENABLED PublishSend(p)
             ELSE ENABLED PublishEnd(p)
    /\ \A c \in ChanIds :
          /\ roomAt[c] \subseteq Range(Accepted(c))
          /\ fullAt[c] \cap Range(Accepted(c)) = {}

\* C1 witness: two publishes in a row found c's queue full and were dropped
\* there, and one of them was enqueued on another endpoint d.
C1_Witness ==
    \E c, d \in Made :
       /\ c # d
       /\ Cardinality(fullAt[c]) >= 2
       /\ fullAt[c] \cap roomAt[d] # {}

\* C2: for every endpoint, the events its consumer has received, and the
\* events enqueued on it, form a subsequence of the publish order: no
\* reordering, no duplicate, only drops.
C2_SubsequenceOfPublishOrder ==
    \A c \in ChanIds :
       /\ IsSubseq(received[c], Published)
       /\ IsSubseq(Accepted(c), Published)

\* C2 witness: a consumer has received two events with a dropped one between.
C2_Witness ==
    \E c \in Made : Len(received[c]) = 2 /\ received[c][2] > received[c][1] + 1

\* C3: once the bus is closed, every endpoint ever handed out is closed, the
\* subscribers list is empty, an endpoint returned by a later Subscribe is
\* closed and empty, no event published after Close is on any queue, and
\* nothing has panicked.
C3_AfterClose ==
    closed =>
       /\ panicked = "none"
       /\ subscribers = <<>>
       /\ \A c \in Made :
             /\ chans[c].closed
             /\ c > atClose[1] => Accepted(c) = <<>>
             /\ \A e \in Range(Accepted(c)) : e <= atClose[2]

\* C3 witness: the bus was closed with a subscriber that had received an
\* event and now reads as closed, and a Subscribe and a Publish came after
\* the Close.
C3_Witness ==
    /\ closed
    /\ atClose[1] >= 1
    /\ nchans > atClose[1]
    /\ npublished > atClose[2]
    /\ \E c \in 1..atClose[1] : received[c] # <<>> /\ ReadsClosed(c)

\* C4: a step that unsubscribes a registered endpoint c closes c, removes
\* exactly c from the subscribers list (the count drops by one) and leaves the
\* queued and received events of every endpoint, and the state of every other
\* endpoint, as they were; no event published after that is enqueued on c.
C4_UnsubscribeFrame ==
    /\ [][ \A c \in ChanIds :
             (InSeq(c, subscribers) /\ ~closed' /\ closedAt'[c] # closedAt[c]) =>
                /\ chans'[c].closed
                /\ chans'[c].buf = chans[c].buf
                /\ subscribers' = Without(subscribers, c)
                /\ SubscriberCount' = SubscriberCount - 1
                /\ received' = received
                /\ \A d \in ChanIds \ {c} : chans'[d] = chans[d] ]_vars
    /\ [](\A c \in ChanIds :
             closedAt[c] # -1 =>
                /\ chans[c].closed
                /\ ~InSeq(c, subscribers)
                /\ \A e \in Range(Accepted(c)) : e <= closedAt[c])

\* C4 witness: endpoint 1 was unsubscribed with an event on its queue, a later
\* publish went to endpoint 2 only, and the bus is still open.
C4_Witness ==
    /\ ~closed
    /\ closedAt[1] # -1
    /\ chans[1].buf # <<>>
    /\ subscribers = <<2>>
    /\ \E e \in Range(Accepted(2)) : e > closedAt[1]

\* C5: while a Publish is fanning out it holds the bus lock: no other fan-out
\* is in progress, the subscribers list is the one it ranges over, and none of
\* the endpoints it still has to send to is closed; no send on a closed
\* endpoint and no second close of an endpoint ever happens.
C5_FanOutExcludesClosing ==
    /\ panicked = "none"
    /\ \A p \in Procs :
          pc[p] = "fanout" =>
             /\ mu = p
             /\ targets[p] = subscribers
             /\ \A q \in Procs \ {p} : pc[q] = "idle"
             /\ \A i \in pos[p]..Len(targets[p]) : ~chans[targets[p][i]].closed

\* C5 witness: a fan-out has sent to one endpoint and still has one to go,
\* while an Unsubscribe of that endpoint and a Close have to wait for the lock.
C5_Witness ==
    \E p \in Procs :
       /\ pc[p] = "fanout"
       /\ pos[p] = 2
       /\ Len(targets[p]) = 2
       /\ ~ENABLED Unsubscribe(targets[p][2])
       /\ ~ENABLED Close

-----------------------------------------------------------------------------
(* The statistics engine (stats.Stats). *)

\* Largest maxSamples given to NewWithOptions in SpecStats.
MaxCapacity == 2
\* RecordRequest calls between two resets in SpecStats.
MaxRecords == 3
\* IncrementConnections calls between two resets.
MaxConns == 2
\* Last reading of the wall clock.
MaxTime == 2
\* maxSamples of the engine in SpecRing.
RingCapacity == 11
\* RecordRequest calls between two resets in SpecRing.
RingRecords == 12

\* maxSamples when the argument of NewWithOptions is not positive.
DefaultMaxSamples == 100
\* The window of RT5.
RT5Window == 5

\* Request durations, byte counts and latencies the callers pass in SpecStats.
Durations == {10, 20}
ByteCounts == {0, 512}
Latencies == {0, 45}
\* Request durations recorded in SpecRing.
RingDurations == {3, 10}


\* NewWithOptions(arg): a non-positive argument gives the default capacity.
NewWithOptions(arg) ==
    /\ maxSamples = IF arg <= 0 THEN DefaultMaxSamples ELSE arg
    /\ totalConns = 0
    /\ openConns = 0
    /\ totalRequests = 0
    /\ totalBytes = 0
    /\ requestTimes = <<>>
    /\ serverLatency = 0
    /\ now = 1
    /\ startTime = now
    /\ ret = "none"
    /\ recorded = <<>>
    /\ sop = "New"

InitStats == \E arg \in 0..MaxCapacity : NewWithOptions(arg)

InitRing == NewWithOptions(RingCapacity)

\* IncrementConnections().
IncrementConnections ==
    /\ totalConns < MaxConns
    /\ totalConns' = totalConns + 1
    /\ openConns' = openConns + 1
    /\ sop' = "IncrementConnections"
    /\ ret' = "none"
    /\ UNCHANGED << totalRequests, totalBytes, requestTimes, maxSamples,
                    serverLatency, startTime, now, recorded >>
    /\ UNCHANGED outsideStats

\* A decrement without the clamp at zero.
DecrementedUnclamped(n) == n - 1

\* The new value of openConns in DecrementOpenConnections().
Decremented(n) == IF n > 0 THEN n - 1 ELSE n

\* DecrementOpenConnections().
DecrementOpenConnections ==
    /\ openConns' = Decremented(openConns)
    /\ sop' = "DecrementOpenConnections"
    /\ ret' = "none"
    /\ UNCHANGED << totalConns, totalRequests, totalBytes, requestTimes,
                    maxSamples, serverLatency, startTime, now, recorded >>
    /\ UNCHANGED outsideStats

\* A ring that at capacity cuts its last slot without shifting first, so the
\* newest sample is replaced and the oldest is kept.
RingAppendNoShift(ring, d) ==
    IF Len(ring) >= maxSamples
    THEN Append(SubSeq(ring, 1, Len(ring) - 1), d)
    ELSE Append(ring, d)

\* The ring after RecordRequest appends d: at capacity shift left by one and
\* cut the last slot, then append.
RingAppend(ring, d) ==
    IF Len(ring) >= maxSamples
    THEN Append(SubSeq(ring, 2, Len(ring)), d)
    ELSE Append(ring, d)

\* A RecordRequest that stores the size of the last request instead of adding
\* it to the total.
RecordRequestLastSize(d, b) ==
    /\ totalRequests' = totalRequests + 1
    /\ totalBytes' = b
    /\ requestTimes' = RingAppend(requestTimes, d)
    /\ recorded' = Append(recorded, d)
    /\ sop' = "RecordRequest"
    /\ ret' = "none"
    /\ UNCHANGED << totalConns, openConns, maxSamples, serverLatency,
                    startTime, now >>
    /\ UNCHANGED outsideStats

\* RecordRequest(duration, bytes).
RecordRequest(d, b) ==
    /\ totalRequests' = totalRequests + 1
    /\ totalBytes' = totalBytes + b
    /\ requestTimes' = RingAppend(requestTimes, d)
    /\ recorded' = Append(recorded, d)
    /\ sop' = "RecordRequest"
    /\ ret' = "none"
    /\ UNCHANGED << totalConns, openConns, maxSamples, serverLatency,
                    startTime, now >>
    /\ UNCHANGED outsideStats

\* SetServerLatency(latency).
SetServerLatency(l) ==
    /\ serverLatency' = l
    /\ sop' = "SetServerLatency"
    /\ ret' = "none"
    /\ UNCHANGED << totalConns, openConns, totalRequests, totalBytes,
                    requestTimes, maxSamples, startTime, now, recorded >>
    /\ UNCHANGED outsideStats

\* Go's integer division: the quotient truncated toward zero (b > 0).
GoDiv(a, b) == IF a >= 0 THEN a \div b ELSE -((-a) \div b)

\* s with x put before its first element greater than x (s ascending).
RECURSIVE Insert(_, _)
Insert(s, x) ==
    IF s = <<>> THEN <<x>>
    ELSE IF x < Head(s) THEN <<x>> \o s
         ELSE <<Head(s)>> \o Insert(Tail(s), x)

\* sort.Slice(sorted, less) with less(i, j) = sorted[i] < sorted[j].
RECURSIVE SortSlice(_)
SortSlice(s) == IF s = <<>> THEN <<>> ELSE Insert(SortSlice(Tail(s)), Head(s))

\* The loop summing requestTimes[i] for i from lo to n (1-based).
RECURSIVE SumFrom(_, _)
SumFrom(s, lo) == IF lo > Len(s) THEN 0 ELSE s[lo] + SumFrom(s, lo + 1)

\* int(float64(n) * 0.9): the product is rounded to a float64 and truncated;
\* that equals the integer quotient of 9n by 10 for every n up to 2,000,000.
P90Index(n) ==
    LET i == (9 * n) \div 10 IN IF i >= n THEN n - 1 ELSE i

\* Timings whose percentiles index the ring itself, not a sorted copy.
TimingsUnsorted(ring) ==
    LET n == Len(ring)
        count == IF n < RT5Window THEN n ELSE RT5Window
    IN IF n = 0
       THEN [RT1 |-> 0, RT5 |-> 0, P50 |-> 0, P90 |-> 0]
       ELSE [RT1 |-> ring[n],
             RT5 |-> GoDiv(SumFrom(ring, n - count + 1), count),
             P50 |-> ring[(n \div 2) + 1],
             P90 |-> ring[P90Index(n) + 1]]

\* The four timings Snapshot derives from the ring.
Timings(ring) ==
    LET n == Len(ring)
        count == IF n < RT5Window THEN n ELSE RT5Window
        sorted == SortSlice(ring)
    IN IF n = 0
       THEN [RT1 |-> 0, RT5 |-> 0, P50 |-> 0, P90 |-> 0]
       ELSE [RT1 |-> ring[n],
             RT5 |-> GoDiv(SumFrom(ring, n - count + 1), count),
             P50 |-> sorted[(n \div 2) + 1],
             P90 |-> sorted[P90Index(n) + 1]]

\* Snapshot().
Snapshot ==
    /\ ret' = [TotalConnections |-> totalConns,
               OpenConnections |-> openConns,
               TotalRequests |-> totalRequests,
               TotalBytes |-> totalBytes,
               ServerLatency |-> serverLatency,
               Uptime |-> now - startTime,
               RT1 |-> Timings(requestTimes).RT1,
               RT5 |-> Timings(requestTimes).RT5,
               P50 |-> Timings(requestTimes).P50,
               P90 |-> Timings(requestTimes).P90]
    /\ sop' = "Snapshot"
    /\ UNCHANGED << totalConns, openConns, totalRequests, totalBytes,
                    requestTimes, maxSamples, serverLatency, startTime, now,
                    recorded >>
    /\ UNCHANGED outsideStats

\* A Reset that leaves the start timestamp as it was.
ResetStartKept == startTime

\* The start timestamp Reset stores: time.Now().
ResetStart == now

\* Reset().
Reset ==
    /\ totalConns' = 0
    /\ openConns' = 0
    /\ totalRequests' = 0
    /\ totalBytes' = 0
    /\ requestTimes' = <<>>
    /\ serverLatency' = 0
    /\ startTime' = ResetStart
    /\ recorded' = <<>>
    /\ sop' = "Reset"
    /\ ret' = "none"
    /\ UNCHANGED << maxSamples, now >>
    /\ UNCHANGED outsideStats

\* The wall clock advances (time.Now() is never the zero time: it starts at 1).
Tick ==
    /\ now < MaxTime
    /\ now' = now + 1
    /\ sop' = "Tick"
    /\ ret' = "none"
    /\ UNCHANGED << totalConns, openConns, totalRequests, totalBytes,
                    requestTimes, maxSamples, serverLatency, startTime,
                    recorded >>
    /\ UNCHANGED outsideStats

NextStats ==
    \/ IncrementConnections
    \/ DecrementOpenConnections
    \/ \E d \in Durations, b \in ByteCounts :
          Len(recorded) < MaxRecords /\ RecordRequest(d, b)
    \/ \E l \in Latencies : SetServerLatency(l)
    \/ Snapshot
    \/ Reset
    \/ Tick

NextRing ==
    \/ \E d \in RingDurations :
          Len(recorded) < RingRecords /\ RecordRequest(d, 0)
    \/ Snapshot
    \/ Reset

-----------------------------------------------------------------------------
(* Properties of the statistics engine. *)

Min(a, b) == IF a <= b THEN a ELSE b

\* The last k elements of s, in order.
LastN(s, k) == [ i \in 1..k |-> s[Len(s) - k + i] ]

\* The sum of s over the index set I.
RECURSIVE SumOver(_, _)
SumOver(s, I) ==
    IF I = {} THEN 0
    ELSE LET i == CHOOSE j \in I : TRUE IN s[i] + SumOver(s, I \ {i})

\* The element of rank k (from 0) of s in ascending order: fewer than k + 1
\* elements are below it and more than k are not above it.
Ranked(s, k) ==
    CHOOSE v \in Range(s) :
       /\ Cardinality({ i \in 1..Len(s) : s[i] < v }) <= k
       /\ Cardinality({ i \in 1..Len(s) : s[i] <= v }) > k

\* C7: after any sequence of operations 0 <= openConns <= totalConns, and a
\* DecrementOpenConnections at zero leaves the gauge at zero.
C7_OpenWithinTotal ==
    /\ [](0 <= openConns /\ openConns <= totalConns)
    /\ [][ (sop' = "DecrementOpenConnections" /\ openConns = 0) =>
              openConns' = 0 ]_vars

\* C7 witness: after a reset, a decrement has been called with no connection
\* open and none counted.
C7_Witness ==
    /\ sop = "DecrementOpenConnections"
    /\ totalConns = 0
    /\ openConns = 0
    /\ startTime > 1

\* C8: a Snapshot over a ring of n samples returns zero timings when n = 0;
\* otherwise RT1 is the duration recorded last, RT5 is the mean (the integer
\* quotient, durations being whole units) of the last min(n, 5) samples, P50
\* is the sample of rank floor(n/2) and P90 the sample of rank
\* min(floor(9n/10), n-1) in ascending order.
C8_SnapshotTimings ==
    sop = "Snapshot" =>
       LET n == Len(requestTimes)
           k == Min(n, 5)
           sum == SumOver(requestTimes, (n - k + 1)..n)
       IN IF n = 0
          THEN ret.RT1 = 0 /\ ret.RT5 = 0 /\ ret.P50 = 0 /\ ret.P90 = 0
          ELSE /\ ret.RT1 = recorded[Len(recorded)]
               /\ k * ret.RT5 <= sum
               /\ sum < k * ret.RT5 + k
               /\ ret.P50 = Ranked(requestTimes, n \div 2)
               /\ ret.P90 = Ranked(requestTimes, Min((9 * n) \div 10, n - 1))

\* C8 witness: a snapshot of a full ring of eleven samples that has lost its
\* oldest sample and is not in ascending order, whose 90th percentile (rank 9)
\* is below its largest sample (rank 10).
C8_Witness ==
    /\ sop = "Snapshot"
    /\ Len(requestTimes) = 11
    /\ Len(recorded) > Len(requestTimes)
    /\ requestTimes[1] > requestTimes[2]
    /\ ret.P90 < requestTimes[1]
    /\ ret.RT1 = ret.RT5

\* C9: the ring never holds more than maxSamples samples and is exactly the
\* last min(n, maxSamples) of the n durations recorded since creation or the
\* last reset, in recording order.
C9_RingHoldsLastSamples ==
    /\ Len(requestTimes) <= maxSamples
    /\ requestTimes = LastN(recorded, Min(Len(recorded), maxSamples))

\* C9 witness: a ring of capacity 2 has overflowed, dropped an oldest sample
\* that differs from those it kept in order.
C9_Witness ==
    /\ maxSamples = 2
    /\ Len(recorded) = 3
    /\ recorded[1] # recorded[2]
    /\ requestTimes = << recorded[2], recorded[3] >>
    /\ recorded[2] # recorded[3]

\* C10 as claimed: right after Reset every counter, the latency gauge and the
\* ring are zero or empty, and the start timestamp is the zero time.
C10_ResetZeroesStartTime ==
    sop = "Reset" =>
       /\ totalConns = 0 /\ openConns = 0
       /\ totalRequests = 0 /\ totalBytes = 0
       /\ serverLatency = 0
       /\ requestTimes = <<>>
       /\ startTime = 0

\* C10 as amended: right after Reset every counter, the latency gauge and the
\* ring are zero or empty, and the start timestamp is the current time, so
\* that the uptime restarts from zero.
C10_ResetRestartsClock ==
    sop = "Reset" =>
       /\ totalConns = 0 /\ openConns = 0
       /\ totalRequests = 0 /\ totalBytes = 0
       /\ serverLatency = 0
       /\ requestTimes = <<>>
       /\ startTime = now

\* C10 witness: a Reset called after the clock has advanced.
C10_Witness == sop = "Reset" /\ now > 1 /\ startTime = now

-----------------------------------------------------------------------------
(* The inspector store: InMemoryStore and the package-level exchange list. *)

\* Number of goroutines calling the store concurrently.
NumStoreProcs == 2
\* Largest maxSize given to NewInMemoryStore.
MaxStoreSize == 2
\* Add calls over the lifetime of a store.
MaxAdds == 3
\* Add calls over the lifetime of a store whose callers write into what Get
\* returned.
MaxCopyAdds == 2
\* AddExchange and AddRequest calls over the lifetime of the process.
MaxPkgAdds == 2

\* maxSize when the argument of NewInMemoryStore is not positive.
DefaultMaxSize == 100
\* The length AddExchange and AddRequest cut the package-level list to.
PkgCapacity == 100

StoreProcs == 1..NumStoreProcs

\* Addresses of the HTTPRequest objects the callers of Add allocate.
Addrs == 1..MaxAdds

\* The exchanges the callers pass to Add: a duration, and a request part that
\* is nil (address 0) or a freshly allocated &HTTPRequest{Method: "GET"}.
AddedDuration == 100
AddedMethod == "GET"
\* What a caller writes into a record it got back from Get.
MutatedDuration == 999
MutatedMethod == "MODIFIED"

\* NewInMemoryStore(arg): a non-positive argument gives the default capacity.
NewInMemoryStore(arg) ==
    /\ exchanges = <<>>
    /\ nextID = 0
    /\ maxSize = IF arg <= 0 THEN DefaultMaxSize ELSE arg
    /\ storeMu = [writer |-> 0, readers |-> {}]
    /\ heap = [ a \in Addrs |-> "none" ]
    /\ spc = [ p \in StoreProcs |-> "idle" ]
    /\ sarg = [ p \in StoreProcs |-> "none" ]
    /\ sret = [op |-> "none"]
    /\ added = <<>>
    /\ sinceClear = <<>>
    /\ cleared = FALSE

\* The package-level variables of package inspector start at their zero values.
InitPkg ==
    /\ pkgExchanges = <<>>
    /\ pkgNextID = 0
    /\ pkgAdded = <<>>

InitStore == (\E arg \in 0..MaxStoreSize : NewInMemoryStore(arg)) /\ InitPkg

\* A store whose lock lets every caller in.
StoreLockIgnored == TRUE

\* s.mu.Lock() can be taken: no writer and no reader holds the lock.
WriteLockFree == storeMu.writer = 0 /\ storeMu.readers = {}

\* s.mu.RLock() can be taken: no writer holds the lock.
ReadLockFree == storeMu.writer = 0

\* The address a caller's next &HTTPRequest{} gets.
NewAddr == CHOOSE a \in Addrs : heap[a] = "none" /\ \A b \in 1..(a - 1) : heap[b] # "none"

\* Add calls started so far.
AddsStarted ==
    Len(added) + Cardinality({ p \in StoreProcs : spc[p] = "add_assign" })

\* Add(exchange), entry: the caller has built the exchange (with a request part
\* when withReq) and takes the write lock.
AddLock(p, withReq) ==
    /\ spc[p] = "idle"
    /\ AddsStarted < MaxAdds
    /\ WriteLockFree
    /\ storeMu' = [storeMu EXCEPT !.writer = p]
    /\ heap' = IF withReq THEN [heap EXCEPT ![NewAddr] = AddedMethod] ELSE heap
    /\ sarg' = [sarg EXCEPT ![p] = [ID |-> 0, Duration |-> AddedDuration,
                                    Request |-> IF withReq THEN NewAddr ELSE 0]]
    /\ spc' = [spc EXCEPT ![p] = "add_assign"]
    /\ UNCHANGED << sret, exchanges, nextID, maxSize, added, sinceClear, cleared,
                    pkgExchanges, pkgNextID, pkgAdded >>
    /\ UNCHANGED outsideStore

\* Add: exchange.ID = s.nextID.
AddAssignID(p) ==
    /\ spc[p] = "add_assign"
    /\ sarg' = [sarg EXCEPT ![p].ID = nextID]
    /\ added' = Append(added, nextID)
    /\ spc' = [spc EXCEPT ![p] = "add_insert"]
    /\ UNCHANGED << exchanges, nextID, maxSize, storeMu, heap, sret, sinceClear,
                    cleared, pkgExchanges, pkgNextID, pkgAdded >>
    /\ UNCHANGED outsideStore

\* A prepend that at capacity overwrites the newest entry instead of shifting.
PrependOverwrite(list, ex) ==
    IF Len(list) >= maxSize
    THEN <<ex>> \o Tail(list)
    ELSE <<ex>> \o list

\* The list after Add prepends ex: at capacity every entry moves one slot
\* toward the end, the last one is lost, and ex takes slot 0.
Prepend(list, ex) ==
    IF Len(list) >= maxSize
    THEN <<ex>> \o SubSeq(list, 1, Len(list) - 1)
    ELSE <<ex>> \o list

\* Add: s.nextID++, the prepend, the deferred Unlock, and the return of the ID.
AddInsert(p) ==
    /\ spc[p] = "add_insert"
    /\ nextID' = nextID + 1
    /\ exchanges' = Prepend(exchanges, sarg[p])
    /\ sinceClear' = Append(sinceClear, sarg[p].ID)
    /\ storeMu' = [storeMu EXCEPT !.writer = 0]
    /\ sret' = [op |-> "Add", by |-> p, id |-> sarg[p].ID]
    /\ spc' = [spc EXCEPT ![p] = "idle"]
    /\ sarg' = [sarg EXCEPT ![p] = "none"]
    /\ UNCHANGED << maxSize, heap, added, cleared,
                    pkgExchanges, pkgNextID, pkgAdded >>
    /\ UNCHANGED outsideStore

\* Clear(), entry: takes the write lock.
ClearLock(p) ==
    /\ spc[p] = "idle"
    /\ WriteLockFree
    /\ storeMu' = [storeMu EXCEPT !.writer = p]
    /\ spc' = [spc EXCEPT ![p] = "clear"]
    /\ cleared' = TRUE
    /\ UNCHANGED << sret, exchanges, nextID, maxSize, heap, sarg, added, sinceClear,
                    pkgExchanges, pkgNextID, pkgAdded >>
    /\ UNCHANGED outsideStore

\* A Clear that also restarts the ID counter.
ClearResetsCounter(p) ==
    /\ spc[p] = "clear"
    /\ exchanges' = <<>>
    /\ nextID' = 0
    /\ sinceClear' = <<>>
    /\ storeMu' = [storeMu EXCEPT !.writer = 0]
    /\ sret' = [op |-> "Clear", by |-> p]
    /\ spc' = [spc EXCEPT ![p] = "idle"]
    /\ UNCHANGED << maxSize, heap, sarg, added, cleared,
                    pkgExchanges, pkgNextID, pkgAdded >>
    /\ UNCHANGED outsideStore

\* Clear: s.exchanges = s.exchanges[:0]; nextID is left alone.
ClearTruncate(p) ==
    /\ spc[p] = "clear"
    /\ exchanges' = <<>>
    /\ sinceClear' = <<>>
    /\ storeMu' = [storeMu EXCEPT !.writer = 0]
    /\ sret' = [op |-> "Clear", by |-> p]
    /\ spc' = [spc EXCEPT ![p] = "idle"]
    /\ UNCHANGED << nextID, maxSize, heap, sarg, added, cleared,
                    pkgExchanges, pkgNextID, pkgAdded >>
    /\ UNCHANGED outsideStore

\* A search that skips the last slot of the list.
FindSkippingLast(list, id) ==
    IF \E i \in 1..(Len(list) - 1) : list[i].ID = id
    THEN CHOOSE i \in 1..(Len(list) - 1) :
            list[i].ID = id /\ \A j \in 1..(i - 1) : list[j].ID # id
    ELSE 0

\* The loop of Get and GetExchange: the first index whose ID is id, 0 if none.
Find(list, id) ==
    IF \E i \in 1..Len(list) : list[i].ID = id
    THEN CHOOSE i \in 1..Len(list) :
            list[i].ID = id /\ \A j \in 1..(i - 1) : list[j].ID # id
    ELSE 0

\* Get(id), entry: takes the read lock.
GetLock(p, id) ==
    /\ spc[p] = "idle"
    /\ ReadLockFree
    /\ storeMu' = [storeMu EXCEPT !.readers = @ \cup {p}]
    /\ sarg' = [sarg EXCEPT ![p] = id]
    /\ spc' = [spc EXCEPT ![p] = "get"]
    /\ UNCHANGED << sret, exchanges, nextID, maxSize, heap, added, sinceClear,
                    cleared, pkgExchanges, pkgNextID, pkgAdded >>
    /\ UNCHANGED outsideStore

\* Get: the search, ex := s.exchanges[i] (a copy of the struct, whose Request
\* field is the same address), the deferred RUnlock and the return.
GetReturn(p) ==
    /\ spc[p] = "get"
    /\ LET i == Find(exchanges, sarg[p])
       IN sret' = IF i > 0
                  THEN [op |-> "Get", by |-> p, id |-> sarg[p], ok |-> TRUE,
                        val |-> exchanges[i]]
                  ELSE [op |-> "Get", by |-> p, id |-> sarg[p], ok |-> FALSE,
                        val |-> "nil"]
    /\ storeMu' = [storeMu EXCEPT !.readers = @ \ {p}]
    /\ spc' = [spc EXCEPT ![p] = "idle"]
    /\ sarg' = [sarg EXCEPT ![p] = "none"]
    /\ UNCHANGED << exchanges, nextID, maxSize, heap, added, sinceClear,
                    cleared, pkgExchanges, pkgNextID, pkgAdded >>
    /\ UNCHANGED outsideStore

\* List() and Count(), entry: take the read lock.
ReadLock(p, method) ==
    /\ spc[p] = "idle"
    /\ ReadLockFree
    /\ storeMu' = [storeMu EXCEPT !.readers = @ \cup {p}]
    /\ spc' = [spc EXCEPT ![p] = method]
    /\ UNCHANGED << sret, exchanges, nextID, maxSize, heap, sarg, added, sinceClear,
                    cleared, pkgExchanges, pkgNextID, pkgAdded >>
    /\ UNCHANGED outsideStore

\* List: the copy of the slice, the deferred RUnlock and the return.
ListReturn(p) ==
    /\ spc[p] = "list"
    /\ sret' = [op |-> "List", by |-> p, list |-> exchanges]
    /\ storeMu' = [storeMu EXCEPT !.readers = @ \ {p}]
    /\ spc' = [spc EXCEPT ![p] = "idle"]
    /\ UNCHANGED << exchanges, nextID, maxSize, heap, sarg, added, sinceClear,
                    cleared, pkgExchanges, pkgNextID, pkgAdded >>
    /\ UNCHANGED outsideStore

\* Count: len(s.exchanges), the deferred RUnlock and the return.
CountReturn(p) ==
    /\ spc[p] = "count"
    /\ sret' = [op |-> "Count", by |-> p, n |-> Len(exchanges)]
    /\ storeMu' = [storeMu EXCEPT !.readers = @ \ {p}]
    /\ spc' = [spc EXCEPT ![p] = "idle"]
    /\ UNCHANGED << exchanges, nextID, maxSize, heap, sarg, added, sinceClear,
                    cleared, pkgExchanges, pkgNextID, pkgAdded >>
    /\ UNCHANGED outsideStore

\* The caller of the Get that returned last writes the Duration field of the
\* record it got back.
MutateDuration(p) ==
    /\ spc[p] = "idle"
    /\ sret.op = "Get" /\ sret.by = p /\ sret.ok
    /\ sret.val.Duration # MutatedDuration
    /\ sret' = [sret EXCEPT !.val.Duration = MutatedDuration]
    /\ UNCHANGED << exchanges, nextID, maxSize, storeMu, heap, spc, sarg,
                    added, sinceClear, cleared, pkgExchanges, pkgNextID,
                    pkgAdded >>
    /\ UNCHANGED outsideStore

\* The caller of the Get that returned last writes through the Request field
\* of the record it got back: ex.Request.Method = "MODIFIED".
MutateRequest(p) ==
    /\ spc[p] = "idle"
    /\ sret.op = "Get" /\ sret.by = p /\ sret.ok
    /\ sret.val.Request # 0
    /\ heap[sret.val.Request] # MutatedMethod
    /\ heap' = [heap EXCEPT ![sret.val.Request] = MutatedMethod]
    /\ UNCHANGED << exchanges, nextID, maxSize, storeMu, spc, sarg, sret,
                    added, sinceClear, cleared, pkgExchanges, pkgNextID,
                    pkgAdded >>
    /\ UNCHANGED outsideStore

\* The package-level list after AddExchange or AddRequest prepends ex.
PkgPrepend(list, ex) ==
    LET l == <<ex>> \o list
    IN IF Len(l) > PkgCapacity THEN SubSeq(l, 1, PkgCapacity) ELSE l

\* AddExchange(req, reqBody, resp, respBody, duration), under mu; the response
\* part is present when resp is not nil.
AddExchange(hasResp) ==
    /\ pkgNextID < MaxPkgAdds
    /\ pkgNextID' = pkgNextID + 1
    /\ pkgExchanges' = PkgPrepend(pkgExchanges,
                          [ID |-> pkgNextID, HasResponse |-> hasResp])
    /\ pkgAdded' = Append(pkgAdded, pkgNextID)
    /\ UNCHANGED << exchanges, nextID, maxSize, storeMu, heap, spc, sarg, sret,
                    added, sinceClear, cleared >>
    /\ UNCHANGED outsideStore

\* AddRequest(method, host, path, status), under mu; the response part is
\* present when status > 0.
AddRequest(status) ==
    /\ pkgNextID < MaxPkgAdds
    /\ pkgNextID' = pkgNextID + 1
    /\ pkgExchanges' = PkgPrepend(pkgExchanges,
                          [ID |-> pkgNextID, HasResponse |-> status > 0])
    /\ pkgAdded' = Append(pkgAdded, pkgNextID)
    /\ UNCHANGED << exchanges, nextID, maxSize, storeMu, heap, spc, sarg, sret,
                    added, sinceClear, cleared >>
    /\ UNCHANGED outsideStore

\* Concurrent callers of Add, Clear, Get, List and Count.
NextStore ==
    \/ \E p \in StoreProcs : AddLock(p, FALSE)
    \/ \E p \in StoreProcs : AddAssignID(p)
    \/ \E p \in StoreProcs : AddInsert(p)
    \/ \E p \in StoreProcs : ClearLock(p)
    \/ \E p \in StoreProcs : ClearTruncate(p)
    \/ \E p \in StoreProcs, id \in 0..MaxAdds : GetLock(p, id)
    \/ \E p \in StoreProcs : GetReturn(p)
    \/ \E p \in StoreProcs, method \in {"list", "count"} : ReadLock(p, method)
    \/ \E p \in StoreProcs : ListReturn(p)
    \/ \E p \in StoreProcs : CountReturn(p)

\* The writers of both stores: Add and Clear on an InMemoryStore, AddExchange
\* and AddRequest on the package-level list.
NextStoreIDs ==
    \/ \E p \in StoreProcs, withReq \in BOOLEAN : AddLock(p, withReq)
    \/ \E p \in StoreProcs : AddAssignID(p)
    \/ \E p \in StoreProcs : AddInsert(p)
    \/ \E p \in StoreProcs : ClearLock(p)
    \/ \E p \in StoreProcs : ClearTruncate(p)
    \/ \E hasResp \in BOOLEAN : AddExchange(hasResp)
    \/ \E status \in {0, 200} : AddRequest(status)

\* Callers that add exchanges, get them back and write into what they got.
NextStoreCopy ==
    \/ \E p \in StoreProcs, withReq \in BOOLEAN :
          AddsStarted < MaxCopyAdds /\ AddLock(p, withReq)
    \/ \E p \in StoreProcs : AddAssignID(p)
    \/ \E p \in StoreProcs : AddInsert(p)
    \/ \E p \in StoreProcs, id \in 0..MaxCopyAdds : GetLock(p, id)
    \/ \E p \in StoreProcs : GetReturn(p)
    \/ \E p \in StoreProcs : ReadLock(p, "list")
    \/ \E p \in StoreProcs : ListReturn(p)
    \/ \E p \in StoreProcs : MutateDuration(p)
    \/ \E p \in StoreProcs : MutateRequest(p)

-----------------------------------------------------------------------------
(* Properties of the inspector store. *)

\* The IDs of a list of exchanges, in list order.
IDsOf(list) == [ i \in 1..Len(list) |-> list[i].ID ]

\* s in reverse order.
Reverse(s) == [ i \in 1..Len(s) |-> s[Len(s) + 1 - i] ]

StrictlyDecreasing(s) == \A i \in 1..(Len(s) - 1) : s[i] > s[i + 1]

\* What Get and List show of the store when their results are read through:
\* every exchange with the Method of the request it points to.
StoreView ==
    [ i \in 1..Len(exchanges) |->
        [ID |-> exchanges[i].ID,
         Duration |-> exchanges[i].Duration,
         Method |-> IF exchanges[i].Request = 0 THEN "nil"
                    ELSE heap[exchanges[i].Request]] ]

\* C12: the k-th ID Add assigns over the lifetime of a store is k - 1, Clear or
\* no Clear in between, so IDs strictly increase and none is assigned twice;
\* Add returns the ID it assigned; the same holds of the IDs AddExchange and
\* AddRequest assign in the package-level list.
C12_IDsNeverReused ==
    /\ \A k \in 1..Len(added) : added[k] = k - 1
    /\ sret.op = "Add" => sret.id \in Range(added)
    /\ \A k \in 1..Len(pkgAdded) : pkgAdded[k] = k - 1
    /\ NoDuplicates(IDsOf(exchanges)) /\ NoDuplicates(IDsOf(pkgExchanges))

\* C12 witness: an Add after a Clear got ID 2, the IDs 0 and 1 having been
\* assigned before the Clear, and the package-level list has assigned 0 and 1.
C12_Witness ==
    /\ cleared
    /\ added = <<0, 1, 2>>
    /\ sinceClear = <<2>>
    /\ sret.op = "Add" /\ sret.id = 2
    /\ pkgAdded = <<0, 1>>

\* C13: the store never holds more than maxSize exchanges; it holds exactly
\* the last min(k, maxSize) of the k exchanges added since the last Clear,
\* newest first, so that an Add on a full store loses only the oldest; the IDs
\* of the store and of every list List returned are strictly decreasing, and a
\* list or count returned is never above maxSize.
C13_NewestFirstWithinCapacity ==
    /\ Len(exchanges) <= maxSize
    /\ IDsOf(exchanges) =
          Reverse(LastN(sinceClear, Min(Len(sinceClear), maxSize)))
    /\ StrictlyDecreasing(IDsOf(exchanges))
    /\ sret.op = "List" =>
          Len(sret.list) <= maxSize /\ StrictlyDecreasing(IDsOf(sret.list))
    /\ sret.op = "Count" => sret.n <= maxSize

\* C13 witness: a store of capacity 2 has taken three Adds
\* without a Clear, lost the exchange with ID 0 and kept 2 and 1 in that order.
C13_Witness ==
    /\ maxSize = 2
    /\ ~cleared
    /\ sinceClear = <<0, 1, 2>>
    /\ IDsOf(exchanges) = <<2, 1>>
    /\ sret.op = "Count" /\ sret.n = 2

\* C14 as claimed: no write a caller makes into the record Get returned, or
\* through its Request field, changes what the store shows afterwards.
C14_GetReturnsDeepCopy ==
    [][ (\E p \in StoreProcs : MutateDuration(p) \/ MutateRequest(p)) =>
           StoreView' = StoreView ]_vars

\* C15: a Get(id) that returns reports found exactly when an exchange with
\* that ID is in the store at that moment, the record it returns then carries
\* that ID and is the stored one, and found or not the call leaves the store
\* and its counter as they were; an ID that was never assigned, or was lost to
\* the capacity or to a Clear, is reported not found.
C15_GetFindsExactlyHeld ==
    [][ \A p \in StoreProcs :
          (spc[p] = "get" /\ spc'[p] = "idle") =>
             /\ sret'.op = "Get" /\ sret'.by = p /\ sret'.id = sarg[p]
             /\ sret'.ok <=> sarg[p] \in Range(IDsOf(exchanges))
             /\ sret'.ok => /\ sret'.val.ID = sarg[p]
                            /\ sret'.val \in Range(exchanges)
             /\ ~sret'.ok => sret'.val = "nil"
             /\ sarg[p] \notin Range(sinceClear) => ~sret'.ok
             /\ exchanges' = exchanges /\ nextID' = nextID ]_vars

\* C15 witness: with capacity 2 and three Adds, a Get of the oldest exchange
\* still held (ID 1, in the last slot) has found it, while ID 0 is lost.
C15_Witness ==
    /\ maxSize = 2
    /\ IDsOf(exchanges) = <<2, 1>>
    /\ sret.op = "Get" /\ sret.id = 1 /\ sret.ok /\ sret.val.ID = 1

\* The goroutines inside a method that holds the write lock, and inside one
\* that holds the read lock.
Writing == { p \in StoreProcs : spc[p] \in {"add_assign", "add_insert", "clear"} }
Reading == { p \in StoreProcs : spc[p] \in {"get", "list", "count"} }

\* C16: under every interleaving of the steps of concurrent Add, Get, List,
\* Clear and Count calls, at most one goroutine is inside a writing method and
\* none is inside a reading method meanwhile; the IDs handed out are pairwise
\* distinct; once N Adds and no Clear have run and no call is in progress the
\* store holds min(N, maxSize) exchanges; and every list List returns is
\* newest first, with strictly decreasing IDs, and no longer than maxSize.
C16_CallsAreSerialized ==
    /\ Cardinality(Writing) <= 1
    /\ Writing # {} => Reading = {}
    /\ NoDuplicates(added)
    /\ (~cleared /\ Writing = {}) =>
          Len(exchanges) = Min(Len(added), maxSize)
    /\ sret.op = "List" =>
          /\ Len(sret.list) <= maxSize
          /\ StrictlyDecreasing(IDsOf(sret.list))
          /\ \A i \in 1..Len(sret.list) : sret.list[i].ID \in Range(added)

\* C16 witness: two goroutines are inside Get and List at once, after MaxAdds
\* Adds and no Clear filled a store of capacity 2 beyond its capacity, the
\* last call to return being the last Add, made by the goroutine now inside
\* Get.
C16_Witness ==
    /\ spc[1] = "get" /\ spc[2] = "list"
    /\ maxSize = 2
    /\ ~cleared
    /\ Len(added) = MaxAdds
    /\ Len(exchanges) = 2
    /\ sret.op = "Add" /\ sret.by = 1 /\ sret.id = MaxAdds - 1

-----------------------------------------------------------------------------
(* The reconnect loop and the tunnel session. *)

\* Largest max_delay of a policy, in units of the smallest initial delay.
MaxDelayCap == 4
\* Largest max_attempts of a policy.
MaxAttemptsCap == 2
\* Session attempts in one run of the loop.
MaxSessions == 3

\* DefaultReconnectConfig(): 1 s, 60 s, 2.0, 0 (delays in seconds).
DefaultReconnectConfig ==
    [InitialDelay |-> 1, MaxDelay |-> 60, Multiplier |-> 2, MaxAttempts |-> 0]

\* The policies given to StartWithReconnect: an initial delay that is not
\* above the maximum delay, a multiplier of 1.0 or 2.0, and a maximum number
\* of attempts, 0 for no limit.
Policies ==
    { [InitialDelay |-> i, MaxDelay |-> m, Multiplier |-> x, MaxAttempts |-> a] :
        i \in 1..MaxDelayCap, m \in 1..MaxDelayCap, x \in {1, 2},
        a \in 0..MaxAttemptsCap }

\* The causes a context reports once it is done.
Causes == {"Canceled", "DeadlineExceeded"}

\* StartWithReconnect(ctx, c) has been called and is at the top of its loop.
StartWithReconnect(c) ==
    /\ cfg = c
    /\ delay = c.InitialDelay
    /\ attempts = 0
    /\ rpc = "check"
    /\ sess = "Closed"
    /\ sessErr = "none"
    /\ ctxErr = "none"
    /\ result = [kind |-> "running", err |-> "none"]
    /\ waits = <<>>
    /\ started = 0
    /\ startedAtCancel = -1

InitReconn ==
    \E c \in Policies : c.InitialDelay <= c.MaxDelay /\ StartWithReconnect(c)

\* The cancellation signal fires: the context is cancelled or its deadline
\* passes.
Cancel(cause) ==
    /\ rpc # "done"
    /\ ctxErr = "none"
    /\ ctxErr' = cause
    /\ startedAtCancel' = started
    /\ UNCHANGED << cfg, delay, attempts, rpc, sess, sessErr, result, waits,
                    started >>
    /\ UNCHANGED outsideReconn

\* ctx.Done() is closed.
CtxDone == ctxErr # "none"

\* The loop finds the context done at one of its wait points, or before it
\* starts an attempt, and returns ctx.Err().
ReturnCancelled ==
    /\ rpc \in {"check", "wait"}
    /\ CtxDone
    /\ result' = [kind |-> "cancelled", err |-> ctxErr]
    /\ rpc' = "done"
    /\ UNCHANGED << cfg, delay, attempts, sess, sessErr, ctxErr, waits,
                    started, startedAtCancel >>
    /\ UNCHANGED outsideReconn

\* The loop attempts a session: Tunnel.Start begins to dial.
BeginAttempt ==
    /\ rpc = "check"
    /\ ~CtxDone
    /\ started < MaxSessions
    /\ started' = started + 1
    /\ rpc' = "session"
    /\ sess' = "Dialing"
    /\ UNCHANGED << cfg, delay, attempts, sessErr, ctxErr, result, waits,
                    startedAtCancel >>
    /\ UNCHANGED outsideReconn

\* Tunnel.Start: both dials fail, and Start returns "failed to connect".
DialFails ==
    /\ rpc = "session" /\ sess = "Dialing"
    /\ sess' = "Closed"
    /\ sessErr' = "dial"
    /\ rpc' = "ended"
    /\ UNCHANGED << cfg, delay, attempts, ctxErr, result, waits, started,
                    startedAtCancel >>
    /\ UNCHANGED outsideReconn

\* Tunnel.Start: a dial succeeds and handleSession takes the connection.
DialSucceeds ==
    /\ rpc = "session" /\ sess = "Dialing"
    /\ sess' = "Handshaking"
    /\ UNCHANGED << cfg, delay, attempts, rpc, sessErr, ctxErr, result, waits,
                    started, startedAtCancel >>
    /\ UNCHANGED outsideReconn

\* handleSession: the multiplexer, the control stream, the two requests or the
\* response fails, or the server answers success = false; conn is closed and
\* the error returned.
HandshakeFails ==
    /\ rpc = "session" /\ sess = "Handshaking"
    /\ sess' = "Closed"
    /\ sessErr' = "handshake"
    /\ rpc' = "ended"
    /\ UNCHANGED << cfg, delay, attempts, ctxErr, result, waits, started,
                    startedAtCancel >>
    /\ UNCHANGED outsideReconn

\* handleSession: the handshake is done and the accept loop begins.
HandshakeSucceeds ==
    /\ rpc = "session" /\ sess = "Handshaking"
    /\ sess' = "Serving"
    /\ UNCHANGED << cfg, delay, attempts, rpc, sessErr, ctxErr, result, waits,
                    started, startedAtCancel >>
    /\ UNCHANGED outsideReconn

\* An accept loop that goes on to the next Accept after an error.
AcceptFailsIgnored ==
    /\ rpc = "session" /\ sess = "Serving"
    /\ sessErr' = "accept"
    /\ UNCHANGED << cfg, delay, attempts, rpc, sess, ctxErr, result, waits,
                    started, startedAtCancel >>
    /\ UNCHANGED outsideReconn

\* handleSession: session.Accept fails (the peer closed, the network failed or
\* the session was closed); conn is closed and "session ended" returned.
AcceptFails ==
    /\ rpc = "session" /\ sess = "Serving"
    /\ sess' = "Closed"
    /\ sessErr' = "accept"
    /\ rpc' = "ended"
    /\ UNCHANGED << cfg, delay, attempts, ctxErr, result, waits, started,
                    startedAtCancel >>
    /\ UNCHANGED outsideReconn

\* A delay multiplied without the cap.
NextDelayUncapped(d) == d * cfg.Multiplier

\* The delay after a wait of d: multiplied by the multiplier and capped at the
\* maximum delay.
NextDelay(d) ==
    LET n == d * cfg.Multiplier
    IN IF n > cfg.MaxDelay THEN cfg.MaxDelay ELSE n

\* A loop that looks at the attempt limit before it looks at the context.
AfterSessionLimitFirst ==
    /\ rpc = "ended"
    /\ attempts' = attempts + 1
    /\ IF cfg.MaxAttempts > 0 /\ attempts + 1 >= cfg.MaxAttempts
       THEN /\ result' = [kind |-> "gaveup", err |-> sessErr]
            /\ rpc' = "done"
            /\ UNCHANGED waits
       ELSE IF CtxDone
       THEN /\ result' = [kind |-> "cancelled", err |-> ctxErr]
            /\ rpc' = "done"
            /\ UNCHANGED waits
       ELSE /\ rpc' = "wait"
            /\ waits' = Append(waits, delay)
            /\ UNCHANGED result
    /\ UNCHANGED << cfg, delay, sess, sessErr, ctxErr, started,
                    startedAtCancel >>
    /\ UNCHANGED outsideReconn

\* A loop that gives up after one attempt more than the limit.
AfterSessionOneMore ==
    /\ rpc = "ended"
    /\ IF CtxDone
       THEN /\ result' = [kind |-> "cancelled", err |-> ctxErr]
            /\ rpc' = "done"
            /\ UNCHANGED << attempts, waits >>
       ELSE /\ attempts' = attempts + 1
            /\ IF cfg.MaxAttempts > 0 /\ attempts + 1 > cfg.MaxAttempts
               THEN /\ result' = [kind |-> "gaveup", err |-> sessErr]
                    /\ rpc' = "done"
                    /\ UNCHANGED waits
               ELSE /\ rpc' = "wait"
                    /\ waits' = Append(waits, delay)
                    /\ UNCHANGED result
    /\ UNCHANGED << cfg, delay, sess, sessErr, ctxErr, started,
                    startedAtCancel >>
    /\ UNCHANGED outsideReconn

\* The session has ended.  A done context makes the loop return its cause;
\* otherwise the attempt is counted and the loop gives up with the session's
\* error when max_attempts > 0 attempts have ended, else schedules a wait of
\* delay.
AfterSession ==
    /\ rpc = "ended"
    /\ IF CtxDone
       THEN /\ result' = [kind |-> "cancelled", err |-> ctxErr]
            /\ rpc' = "done"
            /\ UNCHANGED << attempts, waits >>
       ELSE /\ attempts' = attempts + 1
            /\ IF cfg.MaxAttempts > 0 /\ attempts + 1 >= cfg.MaxAttempts
               THEN /\ result' = [kind |-> "gaveup", err |-> sessErr]
                    /\ rpc' = "done"
                    /\ UNCHANGED waits
               ELSE /\ rpc' = "wait"
                    /\ waits' = Append(waits, delay)
                    /\ UNCHANGED result
    /\ UNCHANGED << cfg, delay, sess, sessErr, ctxErr, started,
                    startedAtCancel >>
    /\ UNCHANGED outsideReconn

\* The wait is over (the timer may win the select even when the context is
\* done): the delay is multiplied and the loop goes back to its top.
WaitElapsed ==
    /\ rpc = "wait"
    /\ delay' = NextDelay(delay)
    /\ rpc' = "check"
    /\ UNCHANGED << cfg, attempts, sess, sessErr, ctxErr, result, waits,
                    started, startedAtCancel >>
    /\ UNCHANGED outsideReconn

\* The steps of the loop itself.
LoopStep == ReturnCancelled \/ BeginAttempt \/ AfterSession \/ WaitElapsed

NextReconn ==
    \/ \E cause \in Causes : Cancel(cause)
    \/ ReturnCancelled
    \/ BeginAttempt
    \/ DialFails
    \/ DialSucceeds
    \/ HandshakeFails
    \/ HandshakeSucceeds
    \/ AcceptFails
    \/ AfterSession
    \/ WaitElapsed

-----------------------------------------------------------------------------
(* Properties of the reconnect loop. *)

\* b to the power n.
RECURSIVE Pow(_, _)
Pow(b, n) == IF n = 0 THEN 1 ELSE b * Pow(b, n - 1)

SessionErrors == {"dial", "handshake", "accept"}

\* C18: with max_attempts > 0 the loop never starts more than max_attempts
\* sessions, and when that many have ended in failure it returns: it gives up
\* only then, with the error of the last session; it returns for no other
\* reason than that or a cancellation, so that with max_attempts = 0 it
\* returns only the cancellation cause.
C18_GivesUpAfterMaxAttempts ==
    /\ cfg.MaxAttempts > 0 => started <= cfg.MaxAttempts
    /\ (cfg.MaxAttempts > 0 /\ attempts >= cfg.MaxAttempts) =>
          rpc = "done" /\ result.kind = "gaveup"
    /\ result.kind = "gaveup" =>
          /\ cfg.MaxAttempts > 0
          /\ started = cfg.MaxAttempts /\ attempts = cfg.MaxAttempts
          /\ result.err = sessErr /\ result.err \in SessionErrors
    /\ rpc = "done" <=> result.kind \in {"gaveup", "cancelled"}
    /\ (rpc = "done" /\ ~CtxDone) => result.kind = "gaveup"
    /\ (rpc = "done" /\ cfg.MaxAttempts = 0) =>
          result.kind = "cancelled" /\ result.err \in Causes

\* C18 witness: with max_attempts = 2 the loop has given up after a failed
\* dial, one wait and a session that ended in its accept loop, uncancelled.
C18_Witness ==
    /\ cfg.MaxAttempts = 2
    /\ started = 2
    /\ Len(waits) = 1
    /\ ~CtxDone
    /\ result = [kind |-> "gaveup", err |-> "accept"]

\* C19: once the context is done no session attempt is started, and when the
\* loop has returned with the context done what it returned is ctx.Err()
\* itself, never the error of a session.
C19_CancellationWins ==
    /\ CtxDone => started = startedAtCancel
    /\ (rpc = "done" /\ CtxDone) =>
          /\ result = [kind |-> "cancelled", err |-> ctxErr]
          /\ result.err \in Causes

\* C19 witness: the deadline passed during the first backoff wait (the wait
\* was scheduled, the delay has not been multiplied) and the loop returned
\* DeadlineExceeded without a second attempt.
C19_Witness ==
    /\ cfg.InitialDelay = 1 /\ cfg.Multiplier = 2 /\ cfg.MaxDelay = 4
    /\ waits = <<1>> /\ delay = 1
    /\ started = 1
    /\ rpc = "done"
    /\ result = [kind |-> "cancelled", err |-> "DeadlineExceeded"]

\* C20: a session ends only by returning the error of what failed: the dial,
\* the handshake, or an Accept of the accept loop, whose failure always ends
\* it; and after a session has ended the loop starts another attempt, unless
\* the context is done or max_attempts sessions have ended.
C20_SessionEndLeadsToRetry ==
    /\ [](rpc = "ended" => sess = "Closed" /\ sessErr \in SessionErrors)
    /\ [][ (rpc = "session" /\ rpc' = "ended") =>
              sessErr' = (CASE sess = "Dialing" -> "dial"
                            [] sess = "Handshaking" -> "handshake"
                            [] sess = "Serving" -> "accept") ]_vars
    /\ [][ sessErr' # sessErr => (rpc' = "ended" /\ sess' = "Closed") ]_vars
    /\ \A n \in 1..(MaxSessions - 1) :
          (rpc = "ended" /\ started = n) ~>
             \/ started = n + 1
             \/ CtxDone
             \/ (cfg.MaxAttempts > 0 /\ attempts >= cfg.MaxAttempts)

\* C20 witness: a session that served has ended by an accept failure, after a
\* first one that failed in its handshake was followed by a wait and a retry;
\* nothing is cancelled and no limit is set.
C20_Witness ==
    /\ cfg.MaxAttempts = 0
    /\ ~CtxDone
    /\ started = 2
    /\ waits = <<cfg.InitialDelay>>
    /\ rpc = "ended" /\ sessErr = "accept"

-----------------------------------------------------------------------------
(* The tunnel session and its proxy workers (Tunnel.Start,                 *)
(* Tunnel.handleSession, Tunnel.proxyStream).                              *)

\* Number of inbound streams the server opens during one session.
MaxStreams == 2

Streams == 1..MaxStreams

\* The InitResponse records the server answers the handshake with.
InitResponses ==
    { [Success |-> TRUE, Error |-> "", BoundDomains |-> <<>>],
      [Success |-> TRUE, Error |-> "", BoundDomains |-> <<"misty-river">>],
      [Success |-> FALSE, Error |-> "", BoundDomains |-> <<>>],
      [Success |-> FALSE, Error |-> "invalid token", BoundDomains |-> <<>>],
      [Success |-> FALSE, Error |-> "already connected", BoundDomains |-> <<>>] }

\* A stream session.Accept has not returned yet: no goroutine serves it.
NoWorker ==
    [ pc |-> "none", spawns |-> 0, remoteCloses |-> 0, localDialed |-> FALSE,
      localCloses |-> 0, req |-> FALSE, resp |-> FALSE, ids |-> {},
      replied |-> FALSE, exit |-> "none" ]

\* The server addresses a tunnel is made for.  A string is the sequence of
\* its pieces, so that two strings are equal when their sequences are and one
\* contains a piece when its sequence does.
ServerAddrs ==
    { <<"localhost", ":4443">>,
      <<"127.0.0.1", ":4443">>,
      <<"[", "::1", "]", ":4443">>,
      <<"gopublic.example.com", ":443">>,
      <<"my", "localhost", ".example.com", ":443">> }

\* config.ServerAddr: the default for development, "localhost:4443".
DefaultServerAddr == <<"localhost", ":4443">>

\* net.SplitHostPort(addr): the host before the port, without the brackets of
\* an IPv6 literal; the empty string (with an error) when addr has no port or
\* has colons that no brackets enclose.
SplitHostPort(addr) ==
    IF Len(addr) < 2 \/ addr[Len(addr)] \notin {":4443", ":443"} THEN <<>>
    ELSE LET h == SubSeq(addr, 1, Len(addr) - 1)
         IN  IF h[1] = "[" /\ h[Len(h)] = "]" THEN SubSeq(h, 2, Len(h) - 1)
             ELSE IF \E i \in 1..Len(h) : h[i] \in {"[", "]", "::1"} THEN <<>>
             ELSE h

\* strings.Contains(str, piece).
Contains(str, piece) == \E i \in 1..Len(str) : str[i] = piece

\* Start: isLocal, from the host of the server address.
IsLocal(addr) ==
    LET split == SplitHostPort(addr)
        host == IF split = <<>> THEN addr ELSE split
    IN  host = <<"localhost">> \/ host = <<"127.0.0.1">> \/ host = <<"::1">>

\* handleSession: the scheme of the URLs it prints for the bound domains.
SchemeOf(addr) ==
    IF Contains(addr, "localhost") \/ Contains(addr, "127.0.0.1")
    THEN "http" ELSE "https"

\* NewTunnel(addr, token, localPort) followed by the call of Start.
NewTunnel(addr) ==
    /\ ServerAddr = addr
    /\ conn = [transport |-> "none", state |-> "none"]
    /\ scheme = "none"
    /\ tpc = "dial"
    /\ control = <<>>
    /\ initResp = [read |-> "none"]
    /\ startErr = [what |-> "none"]
    /\ printed = <<>>
    /\ accepted = 0
    /\ worker = [ s \in Streams |-> NoWorker ]

\* The tunnel the start command makes: NewTunnel(ServerAddr, cfg.Token, port).
TunnelStart == NewTunnel(DefaultServerAddr)

\* The store variables AddExchange does not touch: those of InMemoryStore.
instanceVars == << exchanges, nextID, maxSize, storeMu, heap, spc, sarg, sret,
                   added, sinceClear, cleared >>

\* A return of handleSession that leaves the connection open.
ReturnErrLeavesConn(e) ==
    /\ tpc' = "returned"
    /\ startErr' = e
    /\ UNCHANGED conn

\* Start or handleSession returns the error e; handleSession's deferred
\* conn.Close() runs when it is handleSession that returns.
ReturnErr(e) ==
    /\ tpc' = "returned"
    /\ startErr' = e
    /\ conn' = IF conn.state = "open" THEN [conn EXCEPT !.state = "closed"]
                                      ELSE conn

\* Start dials the server: net.Dial for a local server, otherwise tls.Dial
\* and, when that fails, net.Dial.  When no dial succeeds Start returns
\* "failed to connect", otherwise it calls handleSession(conn).
Connect(tlsOk, plainOk) ==
    /\ tpc = "dial"
    /\ IF ~IsLocal(ServerAddr) /\ tlsOk
       THEN /\ conn' = [transport |-> "tls", state |-> "open"]
            /\ tpc' = "open"
            /\ UNCHANGED startErr
       ELSE IF plainOk
       THEN /\ conn' = [transport |-> "plain", state |-> "open"]
            /\ tpc' = "open"
            /\ UNCHANGED startErr
       ELSE ReturnErr([what |-> "failed to connect"])
    /\ UNCHANGED << control, initResp, printed, accepted, worker >>
    /\ UNCHANGED << ServerAddr, scheme, storeVars, outsideTunnel >>

\* yamux.Client and session.Open: the control stream is open, or
\* handleSession returns the error of the call that failed.
OpenControl(ok) ==
    /\ tpc = "open"
    /\ IF ok THEN tpc' = "auth" /\ UNCHANGED << startErr, conn >>
             ELSE ReturnErr([what |-> "failed to open handshake stream"])
    /\ UNCHANGED << control, initResp, printed, accepted, worker >>
    /\ UNCHANGED << ServerAddr, scheme, storeVars, outsideTunnel >>

\* json.NewEncoder(stream).Encode(authReq) writes the AuthRequest, or fails
\* and handleSession returns its error.
WriteAuth(ok) ==
    /\ tpc = "auth"
    /\ IF ok THEN /\ control' = Append(control, "AuthRequest")
                  /\ tpc' = "request"
                  /\ UNCHANGED << startErr, conn >>
             ELSE /\ ReturnErr([what |-> "write failed"])
                  /\ UNCHANGED control
    /\ UNCHANGED << initResp, printed, accepted, worker >>
    /\ UNCHANGED << ServerAddr, scheme, storeVars, outsideTunnel >>

\* json.NewEncoder(stream).Encode(tunnelReq) writes the TunnelRequest, or
\* fails and handleSession returns its error.
WriteTunnelRequest(ok) ==
    /\ tpc = "request"
    /\ IF ok THEN /\ control' = Append(control, "TunnelRequest")
                  /\ tpc' = "read"
                  /\ UNCHANGED << startErr, conn >>
             ELSE /\ ReturnErr([what |-> "write failed"])
                  /\ UNCHANGED control
    /\ UNCHANGED << initResp, printed, accepted, worker >>
    /\ UNCHANGED << ServerAddr, scheme, storeVars, outsideTunnel >>

\* json.NewDecoder(stream).Decode(&resp) fails: the stream broke or what the
\* server sent is not an InitResponse.
ReadInitResponseFails ==
    /\ tpc = "read"
    /\ initResp' = [read |-> "failed"]
    /\ ReturnErr([what |-> "handshake read failed"])
    /\ UNCHANGED << control, printed, accepted, worker >>
    /\ UNCHANGED << ServerAddr, scheme, storeVars, outsideTunnel >>

\* json.NewDecoder(stream).Decode(&resp) decodes the InitResponse r.
ReadInitResponse(r) ==
    /\ tpc = "read"
    /\ initResp' = [read |-> "ok", Success |-> r.Success, Error |-> r.Error,
                    BoundDomains |-> r.BoundDomains]
    /\ control' = Append(control, "InitResponse")
    /\ tpc' = "check"
    /\ UNCHANGED << startErr, conn, printed, accepted, worker >>
    /\ UNCHANGED << ServerAddr, scheme, storeVars, outsideTunnel >>

\* A session that goes on after the server refused it.
ServerRefusesIgnored ==
    /\ tpc = "check"
    /\ ~initResp.Success
    /\ printed' = <<"Tunnel Established!">> \o initResp.BoundDomains
    /\ tpc' = "closeControl"
    /\ UNCHANGED << control, initResp, startErr, conn, accepted, worker >>
    /\ UNCHANGED << ServerAddr, scheme, storeVars, outsideTunnel >>

\* if !resp.Success: handleSession returns "server error: " + resp.Error.
ServerRefuses ==
    /\ tpc = "check"
    /\ ~initResp.Success
    /\ ReturnErr([what |-> "server error", detail |-> initResp.Error])
    /\ UNCHANGED << control, initResp, printed, accepted, worker >>
    /\ UNCHANGED << ServerAddr, scheme, storeVars, outsideTunnel >>

\* resp.Success: handleSession prints "Tunnel Established!" and one line for
\* each bound domain, a URL with the scheme it works out from ServerAddr.
Announce ==
    /\ tpc = "check"
    /\ initResp.Success
    /\ printed' = <<"Tunnel Established!">> \o initResp.BoundDomains
    /\ scheme' = IF initResp.BoundDomains = <<>> THEN scheme
                                                ELSE SchemeOf(ServerAddr)
    /\ tpc' = "closeControl"
    /\ UNCHANGED << control, initResp, startErr, conn, accepted, worker >>
    /\ UNCHANGED << ServerAddr, storeVars, outsideTunnel >>

\* A session that enters the accept loop with the control stream still open.
CloseControlSkipped ==
    /\ tpc = "closeControl"
    /\ tpc' = "accept"
    /\ UNCHANGED << control, initResp, startErr, conn, printed, accepted, worker >>
    /\ UNCHANGED << ServerAddr, scheme, storeVars, outsideTunnel >>

\* stream.Close(): the handshake is done.
CloseControl ==
    /\ tpc = "closeControl"
    /\ control' = Append(control, "Close")
    /\ tpc' = "accept"
    /\ UNCHANGED << initResp, startErr, conn, printed, accepted, worker >>
    /\ UNCHANGED << ServerAddr, scheme, storeVars, outsideTunnel >>

\* session.Accept() returns an inbound stream and the loop starts
\* go t.proxyStream(stream) for it.
AcceptStream ==
    /\ tpc = "accept"
    /\ accepted < MaxStreams
    /\ accepted' = accepted + 1
    /\ worker' = [worker EXCEPT ![accepted + 1] =
                     [@ EXCEPT !.pc = "dial", !.spawns = @ + 1]]
    /\ UNCHANGED << tpc, control, initResp, startErr, conn, printed >>
    /\ UNCHANGED << ServerAddr, scheme, storeVars, outsideTunnel >>

\* session.Accept() fails: handleSession returns "session ended".
AcceptEnds ==
    /\ tpc = "accept"
    /\ ReturnErr([what |-> "session ended"])
    /\ UNCHANGED << control, initResp, printed, accepted, worker >>
    /\ UNCHANGED << ServerAddr, scheme, storeVars, outsideTunnel >>

\* The session's variables, which a proxy worker never writes.
sessionVars == << tpc, control, initResp, startErr, printed, accepted,
                 ServerAddr, conn, scheme >>

\* The worker on stream s goes to its return statement with outcome e; the
\* deferred calls run in WorkerReturn.
Exit(w, e) == [w EXCEPT !.pc = "return", !.exit = e]

\* inspector.AddExchange(req, reqBody, resp, respBody, duration): the new
\* exchange takes the next ID and has a response part when resp is not nil.
Record(hasResp) ==
    /\ pkgNextID' = pkgNextID + 1
    /\ pkgExchanges' = PkgPrepend(pkgExchanges,
                          [ID |-> pkgNextID, HasResponse |-> hasResp])
    /\ pkgAdded' = Append(pkgAdded, pkgNextID)
    /\ UNCHANGED instanceVars

\* net.Dial("tcp", "localhost:"+t.LocalPort): on failure log and return,
\* otherwise defer local.Close().
DialLocal(s, ok) ==
    /\ worker[s].pc = "dial"
    /\ worker' = [worker EXCEPT ![s] =
                     IF ok THEN [@ EXCEPT !.pc = "readRequest",
                                          !.localDialed = TRUE]
                           ELSE Exit(@, "dial")]
    /\ UNCHANGED << sessionVars, storeVars, outsideTunnel >>

\* A worker that records the bytes it could not parse as a request.
ReadRequestFailsRecorded(s) ==
    /\ worker[s].pc = "readRequest"
    /\ Record(FALSE)
    /\ worker' = [worker EXCEPT ![s] =
                     [@ EXCEPT !.pc = "raw", !.ids = @ \cup {pkgNextID}]]
    /\ UNCHANGED << sessionVars, outsideTunnel >>

\* http.ReadRequest fails: the worker falls back to copying bytes both ways.
ReadRequestFails(s) ==
    /\ worker[s].pc = "readRequest"
    /\ worker' = [worker EXCEPT ![s].pc = "raw"]
    /\ UNCHANGED << sessionVars, storeVars, outsideTunnel >>

\* http.ReadRequest parses the request and the worker reads its body.
ReadRequest(s) ==
    /\ worker[s].pc = "readRequest"
    /\ worker' = [worker EXCEPT ![s] =
                     [@ EXCEPT !.pc = "writeRequest", !.req = TRUE]]
    /\ UNCHANGED << sessionVars, storeVars, outsideTunnel >>

\* go io.Copy(local, remote); io.Copy(remote, local) returns; return.
RawCopyEnds(s) ==
    /\ worker[s].pc = "raw"
    /\ worker' = [worker EXCEPT ![s] = Exit(@, "parse")]
    /\ UNCHANGED << sessionVars, storeVars, outsideTunnel >>

\* req.Write(local) forwards the request to the local service; on failure
\* log and return.
WriteRequest(s, ok) ==
    /\ worker[s].pc = "writeRequest"
    /\ worker' = [worker EXCEPT ![s] =
                     IF ok THEN [@ EXCEPT !.pc = "readResponse"]
                           ELSE Exit(@, "write")]
    /\ UNCHANGED << sessionVars, storeVars, outsideTunnel >>

\* A worker that drops the exchange when the response does not parse.
ReadResponseFailsUnrecorded(s) ==
    /\ worker[s].pc = "readResponse"
    /\ worker' = [worker EXCEPT ![s] = Exit(@, "respParse")]
    /\ UNCHANGED << sessionVars, storeVars, outsideTunnel >>

\* http.ReadResponse fails: log, AddExchange(req, reqBody, nil, nil, ...) and
\* return.
ReadResponseFails(s) ==
    /\ worker[s].pc = "readResponse"
    /\ Record(FALSE)
    /\ worker' = [worker EXCEPT ![s] =
                     Exit([@ EXCEPT !.ids = @ \cup {pkgNextID}], "respParse")]
    /\ UNCHANGED << sessionVars, outsideTunnel >>

\* http.ReadResponse parses the response and the worker reads its body.
ReadResponse(s) ==
    /\ worker[s].pc = "readResponse"
    /\ worker' = [worker EXCEPT ![s] =
                     [@ EXCEPT !.pc = "record", !.resp = TRUE]]
    /\ UNCHANGED << sessionVars, storeVars, outsideTunnel >>

\* A worker that writes the response back without recording the exchange.
RecordExchangeSkipped(s) ==
    /\ worker[s].pc = "record"
    /\ worker' = [worker EXCEPT ![s].pc = "writeResponse"]
    /\ UNCHANGED << sessionVars, storeVars, outsideTunnel >>

\* inspector.AddExchange(req, reqBody, resp, respBody, duration).
RecordExchange(s) ==
    /\ worker[s].pc = "record"
    /\ Record(worker[s].resp)
    /\ worker' = [worker EXCEPT ![s] =
                     [@ EXCEPT !.pc = "writeResponse",
                               !.ids = @ \cup {pkgNextID}]]
    /\ UNCHANGED << sessionVars, outsideTunnel >>

\* resp.Write(remote) writes the response back to the inbound stream and the
\* function ends; on failure log and return.
WriteResponse(s, ok) ==
    /\ worker[s].pc = "writeResponse"
    /\ worker' = [worker EXCEPT ![s] =
                     IF ok THEN Exit([@ EXCEPT !.replied = TRUE], "ok")
                           ELSE Exit(@, "respWrite")]
    /\ UNCHANGED << sessionVars, storeVars, outsideTunnel >>

\* A worker whose return leaves the local socket open.
WorkerReturnLeavesLocal(s) ==
    /\ worker[s].pc = "return"
    /\ worker' = [worker EXCEPT ![s] =
                     [@ EXCEPT !.pc = "exited", !.remoteCloses = @ + 1]]
    /\ UNCHANGED << sessionVars, storeVars, outsideTunnel >>

\* The deferred calls run: local.Close() if the dial had succeeded, then
\* remote.Close().
WorkerReturn(s) ==
    /\ worker[s].pc = "return"
    /\ worker' = [worker EXCEPT ![s] =
                     [@ EXCEPT !.pc = "exited",
                               !.remoteCloses = @ + 1,
                               !.localCloses =
                                   IF worker[s].localDialed THEN @ + 1 ELSE @]]
    /\ UNCHANGED << sessionVars, storeVars, outsideTunnel >>

\* One session from Start to its return, with the workers of its streams.
NextTunnel ==
    \/ \E tlsOk, plainOk \in BOOLEAN : Connect(tlsOk, plainOk)
    \/ \E ok \in BOOLEAN : OpenControl(ok)
    \/ \E ok \in BOOLEAN : WriteAuth(ok)
    \/ \E ok \in BOOLEAN : WriteTunnelRequest(ok)
    \/ ReadInitResponseFails
    \/ \E r \in InitResponses : ReadInitResponse(r)
    \/ ServerRefuses
    \/ Announce
    \/ CloseControl
    \/ AcceptStream
    \/ AcceptEnds
    \/ \E s \in Streams, ok \in BOOLEAN : DialLocal(s, ok)
    \/ \E s \in Streams : ReadRequestFails(s)
    \/ \E s \in Streams : ReadRequest(s)
    \/ \E s \in Streams : RawCopyEnds(s)
    \/ \E s \in Streams, ok \in BOOLEAN : WriteRequest(s, ok)
    \/ \E s \in Streams : ReadResponseFails(s)
    \/ \E s \in Streams : ReadResponse(s)
    \/ \E s \in Streams : RecordExchange(s)
    \/ \E s \in Streams, ok \in BOOLEAN : WriteResponse(s, ok)
    \/ \E s \in Streams : WorkerReturn(s)

-----------------------------------------------------------------------------
(* Properties of the tunnel session and its proxy workers. *)

\* The phase of the session, from the statement it is at.
Phase ==
    CASE tpc = "dial" -> "Dialing"
      [] tpc \in {"open", "auth", "request", "read", "check", "closeControl"}
            -> "Handshaking"
      [] tpc = "accept" -> "Serving"
      [] OTHER -> "Closed"

\* The phase changes the state machine allows.
PhaseOrder ==
    { <<"Dialing", "Handshaking">>, <<"Handshaking", "Serving">>,
      <<"Dialing", "Closed">>, <<"Handshaking", "Closed">>,
      <<"Serving", "Closed">> }

\* What a complete handshake does with the control stream, in order.
Handshake == <<"AuthRequest", "TunnelRequest", "InitResponse", "Close">>

IsPrefix(a, b) == Len(a) <= Len(b) /\ a = SubSeq(b, 1, Len(a))

\* The worker on stream s has started and has not run its deferred calls.
Running(s) == worker[s].pc \notin {"none", "exited"}

\* The exchange with the given ID in the package-level list.
Held(id) == CHOOSE ex \in Range(pkgExchanges) : ex.ID = id

\* C21: within one session the phases occur only in the order Dialing,
\* Handshaking, Serving, Closed; AuthRequest is written before TunnelRequest
\* and both before InitResponse is read; no stream is accepted and no worker
\* is spawned before an InitResponse with success = true has been read and
\* the control stream closed; an error in any phase goes straight to Closed.
C21_SessionPhasesInOrder ==
    /\ [][ Phase' # Phase => <<Phase, Phase'>> \in PhaseOrder ]_vars
    /\ [][ startErr' # startErr => Phase # "Closed" /\ Phase' = "Closed" ]_vars
    /\ [](IsPrefix(control, Handshake))
    /\ []( (tpc = "accept" \/ accepted > 0
              \/ \E s \in Streams : worker[s].pc # "none")
           => /\ initResp.read = "ok"
              /\ initResp.Success
              /\ control = Handshake )

C21_Witness ==
    /\ tpc = "accept"
    /\ accepted = 1
    /\ worker[1].pc = "dial"
    /\ control = Handshake

\* C22: when the InitResponse has success = false or cannot be decoded, the
\* session returns an error (carrying the server's error text when the
\* server refused), announces no tunnel and never enters the accept loop.
C22_RefusedSessionEnds ==
    /\ initResp.read = "failed" =>
          /\ tpc = "returned"
          /\ startErr = [what |-> "handshake read failed"]
    /\ (initResp.read = "ok" /\ ~initResp.Success) =>
          /\ tpc \in {"check", "returned"}
          /\ tpc = "returned" =>
                startErr = [what |-> "server error", detail |-> initResp.Error]
    /\ (initResp.read = "failed" \/ (initResp.read = "ok" /\ ~initResp.Success)) =>
          /\ printed = <<>>
          /\ ~InSeq("Close", control)
          /\ accepted = 0
          /\ \A s \in Streams : worker[s].pc = "none"

C22_Witness ==
    /\ tpc = "returned"
    /\ initResp.read = "ok"
    /\ ~initResp.Success
    /\ startErr = [what |-> "server error", detail |-> "already connected"]

\* C23: each accepted stream gets exactly one proxy worker, and on every exit
\* path of the worker the inbound stream is closed exactly once and the local
\* socket, if it was dialed, is closed exactly once.
C23_StreamAndSocketClosedOnce ==
    \A s \in Streams :
        /\ worker[s].spawns = IF s <= accepted THEN 1 ELSE 0
        /\ (worker[s].pc # "none") = (s <= accepted)
        /\ worker[s].pc = "exited" =>
              /\ worker[s].exit \in {"dial", "parse", "write", "respParse",
                                     "respWrite", "ok"}
              /\ worker[s].remoteCloses = 1
              /\ worker[s].localCloses = IF worker[s].localDialed THEN 1 ELSE 0
              /\ worker[s].localDialed = (worker[s].exit # "dial")
        /\ worker[s].pc # "exited" =>
              /\ worker[s].remoteCloses = 0
              /\ worker[s].localCloses = 0

C23_Witness ==
    /\ worker[1].pc = "exited" /\ worker[1].exit = "respWrite"
    /\ worker[1].localCloses = 1
    /\ worker[2].pc = "exited" /\ worker[2].exit = "dial"
    /\ worker[2].remoteCloses = 1

\* C24: a worker whose local dial fails, or whose stream does not parse as an
\* HTTP request, records no exchange; the failure stays inside the worker:
\* the session, the other workers and the store are as they were, and the
\* accept loop can still accept the next stream.
C24_EarlyFailureStaysInWorker ==
    /\ [][ \A s \in Streams :
              (<<worker[s].pc, worker'[s].pc>> \in
                  { <<"dial", "return">>, <<"readRequest", "raw">>,
                    <<"raw", "return">> }) =>
                 /\ pkgExchanges' = pkgExchanges
                 /\ pkgNextID' = pkgNextID
                 /\ sessionVars' = sessionVars
                 /\ \A o \in Streams \ {s} : worker'[o] = worker[o] ]_vars
    /\ [](\A s \in Streams :
              worker[s].exit \in {"dial", "parse"} => worker[s].ids = {})
    /\ []((tpc = "accept" /\ accepted < MaxStreams) => ENABLED AcceptStream)

C24_Witness ==
    /\ worker[1].pc = "exited" /\ worker[1].exit = "parse"
    /\ worker[2].pc = "exited" /\ worker[2].exit = "ok"
    /\ IDsOf(pkgExchanges) = <<0>>
    /\ worker[2].ids = {0}

\* C25: when the request was parsed and forwarded but the response cannot be
\* parsed, the worker records exactly one exchange, with a request part and
\* no response part, writes nothing back and closes the stream; every
\* exchange has a response part exactly when its worker parsed a response.
C25_ResponseParseFailureRecorded ==
    /\ \A s \in Streams :
          worker[s].exit = "respParse" =>
             /\ worker[s].req
             /\ Cardinality(worker[s].ids) = 1
             /\ \A id \in worker[s].ids : ~Held(id).HasResponse
             /\ ~worker[s].replied
             /\ worker[s].pc = "exited" => worker[s].remoteCloses = 1
    /\ \A s \in Streams : \A id \in worker[s].ids :
          /\ InSeq(id, IDsOf(pkgExchanges))
          /\ Held(id).HasResponse = worker[s].resp
    /\ \A s \in Streams : worker[s].replied => worker[s].resp
    /\ Len(pkgExchanges) = Cardinality(UNION { worker[s].ids : s \in Streams })

C25_Witness ==
    /\ worker[1].pc = "exited" /\ worker[1].exit = "respParse"
    /\ worker[2].pc = "exited" /\ worker[2].exit = "ok"
    /\ Len(pkgExchanges) = 2

\* C37: a worker adds at most one exchange for its stream, and no two workers
\* add the same one; once request and response have both parsed, the exchange
\* is in the list, with its response part, before the response is written
\* back, and the write-back, failed or not, leaves the list as it was.
C37_RecordedBeforeWriteBack ==
    /\ [](\A s \in Streams : Cardinality(worker[s].ids) <= 1)
    /\ [](\A s, o \in Streams :
              s # o => worker[s].ids \cap worker[o].ids = {})
    /\ [](Len(pkgAdded) =
              Cardinality(UNION { worker[s].ids : s \in Streams }))
    /\ [](\A s \in Streams :
              (worker[s].pc = "writeResponse"
                 \/ worker[s].exit \in {"ok", "respWrite"}) =>
                 /\ worker[s].req /\ worker[s].resp
                 /\ Cardinality(worker[s].ids) = 1
                 /\ \A id \in worker[s].ids :
                       /\ InSeq(id, IDsOf(pkgExchanges))
                       /\ Held(id).HasResponse)
    /\ [][ \A s \in Streams :
              (worker[s].pc = "writeResponse" /\ worker'[s].pc = "return") =>
                 /\ pkgExchanges' = pkgExchanges
                 /\ pkgAdded' = pkgAdded
                 /\ worker'[s].ids = worker[s].ids ]_vars

C37_Witness ==
    /\ worker[1].pc = "exited" /\ worker[1].exit = "respWrite"
    /\ ~worker[1].replied
    /\ worker[1].ids = {0}
    /\ Held(0).HasResponse
    /\ worker[2].pc = "writeResponse"

\* C34: the scheme announced for the bound domains is http exactly when the
\* server is local, that is for the addresses (host localhost, 127.0.0.1 or
\* ::1) for which Start dials plain TCP without trying TLS, and https for
\* every other address.
C34_SchemeHttpIffLocal ==
    scheme # "none" =>
       /\ (scheme = "http") = IsLocal(ServerAddr)
       /\ IsLocal(ServerAddr) => conn.transport = "plain"

\* C40: whenever a session has returned, by whichever exit, its connection to
\* the server is closed (there is none when no dial succeeded); the connection
\* is open exactly while handleSession runs.
C40_ConnectionClosedOnReturn ==
    /\ tpc = "returned" =>
          /\ conn.state # "open"
          /\ (conn.state = "none") = (startErr.what = "failed to connect")
          /\ startErr.what \in
                {"failed to open handshake stream", "write failed",
                 "handshake read failed", "server error", "session ended"}
                => conn.state = "closed"
    /\ (conn.state = "open") =
          (tpc \in {"open", "auth", "request", "read", "check", "closeControl",
                    "accept"})
    /\ (conn.transport = "none") = (conn.state = "none")

C40_Witness ==
    /\ tpc = "returned"
    /\ startErr.what = "session ended"
    /\ conn = [transport |-> "tls", state |-> "closed"]
    /\ accepted = 1

\* C27: every proxy worker calls IncrementConnections once when it starts and
\* DecrementOpenConnections once when it exits, so openConns is the number of
\* workers running and totalConns the number of workers started.
C27_OpenConnsCountsWorkers ==
    /\ openConns = Cardinality({ s \in Streams : Running(s) })
    /\ totalConns = Cardinality({ s \in Streams : worker[s].pc # "none" })

-----------------------------------------------------------------------------
(* The inspector's HTTP API (package inspector: Start, handleReplay).      *)

\* Number of HTTP clients reading /api/exchanges.
NumClients == 2
\* Number of proxy workers calling AddExchange.
NumRecorders == 2

Clients == 1..NumClients
\* Task identifiers: the handlers serving the clients come first.
Recorders == (NumClients + 1)..(NumClients + NumRecorders)

\* The package-level lock is free and no handler or AddExchange call runs.
InitInspect ==
    /\ pkgMu = [writer |-> 0, readers |-> {}]
    /\ hpc = [ c \in Clients |-> "idle" ]
    /\ apc = [ w \in Recorders |-> "idle" ]

\* mu.Lock() can be taken: no task holds the lock.
PkgWriteLockFree == pkgMu.writer = 0 /\ pkgMu.readers = {}

\* mu.RLock() can be taken: no writer holds the lock and none waits for it.
PkgReadLockFree ==
    pkgMu.writer = 0 /\ \A w \in Recorders : apc[w] # "lock"

\* GET /api/exchanges: mu.RLock(); defer mu.RUnlock().
ListHandlerRLock(c) ==
    /\ hpc[c] = "idle"
    /\ PkgReadLockFree
    /\ pkgMu' = [pkgMu EXCEPT !.readers = @ \cup {c}]
    /\ hpc' = [hpc EXCEPT ![c] = "encode"]
    /\ UNCHANGED << apc, storeVars, outsideInspect >>

\* json.NewEncoder(w).Encode(exchanges) writes the list to the client's
\* connection: the write returns at once, or blocks when the client is slow
\* to read what was sent.
EncodeWrites(c, slow) ==
    /\ hpc[c] = "encode"
    /\ hpc' = [hpc EXCEPT ![c] = IF slow THEN "blocked" ELSE "written"]
    /\ UNCHANGED << pkgMu, apc, storeVars, outsideInspect >>

\* The slow client has read the response: the blocked write returns.
ClientReads(c) ==
    /\ hpc[c] = "blocked"
    /\ hpc' = [hpc EXCEPT ![c] = "written"]
    /\ UNCHANGED << pkgMu, apc, storeVars, outsideInspect >>

\* The handler returns: the deferred mu.RUnlock() runs.
ListHandlerRUnlock(c) ==
    /\ hpc[c] = "written"
    /\ pkgMu' = [pkgMu EXCEPT !.readers = @ \ {c}]
    /\ hpc' = [hpc EXCEPT ![c] = "idle"]
    /\ UNCHANGED << apc, storeVars, outsideInspect >>

\* A proxy worker calls AddExchange and arrives at mu.Lock().
AddExchangeCall(w) ==
    /\ apc[w] = "idle"
    /\ pkgNextID + Cardinality({ o \in Recorders : apc[o] # "idle" }) < MaxPkgAdds
    /\ apc' = [apc EXCEPT ![w] = "lock"]
    /\ UNCHANGED << pkgMu, hpc, storeVars, outsideInspect >>

\* mu.Lock() returns.
AddExchangeLock(w) ==
    /\ apc[w] = "lock"
    /\ PkgWriteLockFree
    /\ pkgMu' = [pkgMu EXCEPT !.writer = w]
    /\ apc' = [apc EXCEPT ![w] = "locked"]
    /\ UNCHANGED << hpc, storeVars, outsideInspect >>

\* AddExchange assigns the ID, prepends the exchange and returns: the
\* deferred mu.Unlock() runs.
AddExchangeStore(w, hasResp) ==
    /\ apc[w] = "locked"
    /\ Record(hasResp)
    /\ pkgMu' = [pkgMu EXCEPT !.writer = 0]
    /\ apc' = [apc EXCEPT ![w] = "idle"]
    /\ UNCHANGED << hpc, outsideInspect >>

\* Clients of GET /api/exchanges and proxy workers recording exchanges.
NextInspect ==
    \/ \E c \in Clients : ListHandlerRLock(c)
    \/ \E c \in Clients, slow \in BOOLEAN : EncodeWrites(c, slow)
    \/ \E c \in Clients : ClientReads(c)
    \/ \E c \in Clients : ListHandlerRUnlock(c)
    \/ \E w \in Recorders : AddExchangeCall(w)
    \/ \E w \in Recorders : AddExchangeLock(w)
    \/ \E w \in Recorders, hasResp \in BOOLEAN : AddExchangeStore(w, hasResp)

\* C28: no lock is held across a suspension point: the inspector store lock
\* is never held while a task is blocked on network I/O, so a slow reader of
\* the inspector HTTP API never delays a proxy worker recording an exchange.
C28_NoLockHeldAcrossNetworkWrite ==
    /\ \A c \in Clients : hpc[c] = "blocked" => c \notin pkgMu.readers
    /\ \A w \in Recorders :
          apc[w] = "lock" =>
             ~\E c \in pkgMu.readers : hpc[c] = "blocked"

-----------------------------------------------------------------------------
(* The protocol messages and their JSON encoding (package protocol).       *)

\* The message m is about to be encoded.
Message(m) ==
    /\ sent = m
    /\ encoded = [kind |-> "none"]
    /\ decoded = [kind |-> "none"]

\* protocol.AuthRequest{}: the zero value.
ZeroAuthRequest == [kind |-> "AuthRequest", Token |-> "", Force |-> FALSE]

\* Longest domain list in a message.
MaxDomains == 1

\* A Go slice of strings: nil, or a backing array with the elements.
NilSlice == [nil |-> TRUE, elems |-> <<>>]
Slices ==
    {NilSlice} \cup
    { [nil |-> FALSE, elems |-> e] :
         e \in UNION { [1..n -> {"misty-river"}] : n \in 0..MaxDomains } }

\* A *ServerStats: nil, or a pointer to a ServerStats value.
NilStats == [nil |-> TRUE, BandwidthToday |-> 0, BandwidthTotal |-> 0,
             BandwidthLimit |-> 0]
StatsPointers ==
    {NilStats} \cup
    { [nil |-> FALSE, BandwidthToday |-> t, BandwidthTotal |-> t,
       BandwidthLimit |-> l] : t \in {0, 512}, l \in {0} }

\* The values of the three message types.
Messages ==
    { [kind |-> "AuthRequest", Token |-> t, Force |-> f] :
         t \in {"", "sk_live"}, f \in BOOLEAN }
    \cup { [kind |-> "TunnelRequest", RequestedDomains |-> d] : d \in Slices }
    \cup { [kind |-> "InitResponse", Success |-> s, Error |-> e,
            ErrorCode |-> c, BoundDomains |-> d, ServerStats |-> p] :
              s \in BOOLEAN, e \in {"", "invalid token"},
              c \in {"", "invalid_token"}, d \in Slices, p \in StatsPointers }

\* A JSON object is a function from the keys it has to their values.
NoFields == [ k \in {} |-> TRUE ]

\* One field of a struct as encoding/json writes it: left out when the tag
\* says omitempty and the value is empty (false, "", a nil pointer, a slice of
\* length 0).
Field(key, value, omitted) == IF omitted THEN NoFields ELSE key :> value

\* A []string: null for a nil slice, an array otherwise.
EncodeSlice(sl) ==
    IF sl.nil THEN [json |-> "null", elems |-> <<>>]
              ELSE [json |-> "array", elems |-> sl.elems]

\* json.NewEncoder(w).Encode(m).
Marshal(m) ==
    CASE m.kind = "AuthRequest" ->
            Field("token", m.Token, FALSE)
            @@ Field("force", m.Force, ~m.Force)
      [] m.kind = "TunnelRequest" ->
            Field("requested_domains", EncodeSlice(m.RequestedDomains), FALSE)
      [] m.kind = "InitResponse" ->
            Field("success", m.Success, FALSE)
            @@ Field("error", m.Error, m.Error = "")
            @@ Field("error_code", m.ErrorCode, m.ErrorCode = "")
            @@ Field("bound_domains", EncodeSlice(m.BoundDomains),
                     Len(m.BoundDomains.elems) = 0)
            @@ Field("server_stats",
                     [bandwidth_today |-> m.ServerStats.BandwidthToday,
                      bandwidth_total |-> m.ServerStats.BandwidthTotal,
                      bandwidth_limit |-> m.ServerStats.BandwidthLimit],
                     m.ServerStats.nil)

\* The value of a key of the object, or the field's zero value when the
\* object has no such key.
Get(obj, key, zero) == IF key \in DOMAIN obj THEN obj[key] ELSE zero

\* A []string decoded from null or from an array.
DecodeSlice(j) ==
    IF j.json = "null" THEN NilSlice ELSE [nil |-> FALSE, elems |-> j.elems]

\* json.NewDecoder(r).Decode(&m) into the zero value of the message type.
Unmarshal(kind, obj) ==
    CASE kind = "AuthRequest" ->
            [kind |-> kind, Token |-> Get(obj, "token", ""),
             Force |-> Get(obj, "force", FALSE)]
      [] kind = "TunnelRequest" ->
            [kind |-> kind,
             RequestedDomains |->
                 DecodeSlice(Get(obj, "requested_domains", EncodeSlice(NilSlice)))]
      [] kind = "InitResponse" ->
            [kind |-> kind, Success |-> Get(obj, "success", FALSE),
             Error |-> Get(obj, "error", ""),
             ErrorCode |-> Get(obj, "error_code", ""),
             BoundDomains |->
                 DecodeSlice(Get(obj, "bound_domains", EncodeSlice(NilSlice))),
             ServerStats |->
                 IF "server_stats" \in DOMAIN obj
                 THEN [nil |-> FALSE,
                       BandwidthToday |-> obj["server_stats"].bandwidth_today,
                       BandwidthTotal |-> obj["server_stats"].bandwidth_total,
                       BandwidthLimit |-> obj["server_stats"].bandwidth_limit]
                 ELSE NilStats]

InitWire == \E m \in Messages : Message(m)

\* The sender encodes the message.
Encode ==
    /\ encoded.kind = "none"
    /\ encoded' = [kind |-> "json", obj |-> Marshal(sent)]
    /\ UNCHANGED << sent, decoded, outsideWire >>

\* The receiver decodes what was sent into a message of the same type.
Decode ==
    /\ encoded.kind = "json"
    /\ decoded.kind = "none"
    /\ decoded' = Unmarshal(sent.kind, encoded.obj)
    /\ UNCHANGED << sent, encoded, outsideWire >>

NextWire ==
    \/ Encode
    \/ Decode

\* C29: encoding any AuthRequest, TunnelRequest or InitResponse to JSON and
\* decoding it again yields an equal record: absent optional fields are still
\* absent and present fields, empty lists included, are still present.
C29_RoundTripIdentity ==
    decoded.kind # "none" => decoded = sent

-----------------------------------------------------------------------------
(* Replay of a captured request (handleReplay and its two routes).         *)

Routes == {"/api/exchanges/replay/", "/api/replay/"}

\* The request req is about to be served; the local port is port and the
\* local service answers when up.
ReplayRequest(req, port, up) ==
    /\ replayReq = req
    /\ localPort = port
    /\ upstreamUp = up
    /\ outcome = [ r \in Routes |-> [Status |-> 0, Body |-> ""] ]

\* Longest id in the path of a replay request, in characters.
MaxIdLen == 2

\* The ids a request path can end in: strings, as sequences of characters.
IdStrings == UNION { [1..n -> {"0", "1", "x", "-"}] : n \in 0..MaxIdLen }

\* The request targets of the captured requests: origin-form, and the
\* asterisk-form of OPTIONS *.
CapturedURLs == {"/hook", "*"}

\* The package-level list after AddExchange has recorded requests with the
\* given targets, oldest first: newest first, IDs from 0.
Captured(urls) ==
    [ i \in 1..Len(urls) |->
        [ID |-> Len(urls) - i, HasResponse |-> TRUE,
         URL |-> urls[Len(urls) - i + 1]] ]

DigitValue(c) == IF c = "1" THEN 1 ELSE 0

RECURSIVE Decimal(_)
\* The number a string of digits denotes.
Decimal(s) ==
    IF s = <<>> THEN 0
    ELSE 10 * Decimal(SubSeq(s, 1, Len(s) - 1)) + DigitValue(s[Len(s)])

\* strconv.ParseInt(s, 10, 64): an optional sign and at least one digit.
\* (Ids this short never leave the 64-bit range.)
ParseInt(s) ==
    LET signed == Len(s) > 0 /\ s[1] \in {"+", "-"}
        digits == IF signed THEN Tail(s) ELSE s
    IN  IF Len(digits) > 0 /\ \A i \in 1..Len(digits) : digits[i] \in {"0", "1"}
        THEN [ok |-> TRUE,
              val |-> IF signed /\ s[1] = "-" THEN 0 - Decimal(digits)
                                             ELSE Decimal(digits)]
        ELSE [ok |-> FALSE, val |-> 0]

\* GetExchange(id): whether the list holds an exchange with this ID.
Holds(id) == \E i \in 1..Len(pkgExchanges) : pkgExchanges[i].ID = id

\* http.NewRequest(method, "http://localhost:" + localPort + URL, body) fails
\* when the URL does not parse: the target "*" lands in the port of the host.
NewRequestFails(id) == Held(id).URL = "*"

\* http.Error(w, text, code), and the JSON answer of a replay that ran.
Answer(code, text) == [Status |-> code, Body |-> text]

\* A handler that looks at the local port before it looks up the exchange.
handleReplayPortFirst(req) ==
    IF req.Method # "POST" THEN Answer(405, "Method not allowed")
    ELSE IF ~ParseInt(req.ID).ok THEN Answer(400, "Invalid ID")
    ELSE IF localPort = "" THEN Answer(500, "Replay not configured (no local port)")
    ELSE IF ~Holds(ParseInt(req.ID).val) THEN Answer(404, "Exchange not found")
    ELSE IF NewRequestFails(ParseInt(req.ID).val)
         THEN Answer(500, "Failed to create request")
    ELSE IF ~upstreamUp THEN Answer(502, "Replay failed")
    ELSE Answer(200, "{status, headers, body}")

\* handleReplay(w, r, idStr).
handleReplay(req) ==
    IF req.Method # "POST" THEN Answer(405, "Method not allowed")
    ELSE IF ~ParseInt(req.ID).ok THEN Answer(400, "Invalid ID")
    ELSE IF ~Holds(ParseInt(req.ID).val) THEN Answer(404, "Exchange not found")
    ELSE IF localPort = "" THEN Answer(500, "Replay not configured (no local port)")
    ELSE IF NewRequestFails(ParseInt(req.ID).val)
         THEN Answer(500, "Failed to create request")
    ELSE IF ~upstreamUp THEN Answer(502, "Replay failed")
    ELSE Answer(200, "{status, headers, body}")

InitReplay ==
    /\ \E m \in {"GET", "POST"}, id \in IdStrings, port \in {"", "3000"},
          up \in BOOLEAN :
          ReplayRequest([Method |-> m, ID |-> id], port, up)
    /\ \E n \in 0..MaxPkgAdds : \E urls \in [1..n -> CapturedURLs] :
          /\ pkgExchanges = Captured(urls)
          /\ pkgNextID = n
          /\ pkgAdded = [ i \in 1..n |-> i - 1 ]

\* The "/api/exchanges/" handler is given a path that goes on with "replay/":
\* it calls handleReplay with what follows.
ServeExchangesRoute ==
    /\ outcome["/api/exchanges/replay/"].Status = 0
    /\ outcome' = [outcome EXCEPT
                      !["/api/exchanges/replay/"] = handleReplay(replayReq)]
    /\ UNCHANGED << localPort, replayReq, upstreamUp, outsideReplay >>

\* A replay that is recorded as a new exchange, as a request that came in
\* through the tunnel is.
ServeReplayRouteRecorded ==
    /\ outcome["/api/replay/"].Status = 0
    /\ outcome' = [outcome EXCEPT
                      !["/api/replay/"] =
                          IF replayReq.Method # "POST"
                          THEN Answer(405, "Method not allowed")
                          ELSE handleReplay(replayReq)]
    /\ IF handleReplay(replayReq).Status \in {200, 502}
       THEN Record(handleReplay(replayReq).Status = 200)
       ELSE UNCHANGED storeVars
    /\ UNCHANGED << localPort, replayReq, upstreamUp >>
    /\ UNCHANGED << busVars, statsVars, reconnVars, tunnelVars, inspectVars,
                    wireVars, tuiVars, startVars >>

\* The "/api/replay/" handler answers 405 to a method other than POST and
\* otherwise calls handleReplay with the rest of the path.
ServeReplayRoute ==
    /\ outcome["/api/replay/"].Status = 0
    /\ outcome' = [outcome EXCEPT
                      !["/api/replay/"] =
                          IF replayReq.Method # "POST"
                          THEN Answer(405, "Method not allowed")
                          ELSE handleReplay(replayReq)]
    /\ UNCHANGED << localPort, replayReq, upstreamUp, outsideReplay >>

NextReplay ==
    \/ ServeExchangesRoute
    \/ ServeReplayRoute

\* Whether the request's id is an integer, and whether an exchange has it.
IdIsInteger == ParseInt(replayReq.ID).ok
IdIsHeld == IdIsInteger /\ Holds(ParseInt(replayReq.ID).val)

\* The outcomes both statements of the claim agree on: 405, 400, 404, 500
\* without a local port, and the same answer on both routes.
ReplayErrorsBeforeUpstream(r) ==
    /\ replayReq.Method # "POST" => outcome[r].Status = 405
    /\ (replayReq.Method = "POST" /\ ~IdIsInteger) => outcome[r].Status = 400
    /\ (replayReq.Method = "POST" /\ IdIsInteger /\ ~IdIsHeld) =>
          outcome[r].Status = 404
    /\ (replayReq.Method = "POST" /\ IdIsHeld /\ localPort = "") =>
          outcome[r].Status = 500
    /\ \A o \in Routes : outcome[o].Status # 0 => outcome[o] = outcome[r]

\* C30 as stated: every replay request on either route ends in exactly one
\* outcome: 405 if the method is not POST, 400 if the id is not an integer,
\* 404 if no exchange has that id, 500 if the local port is unconfigured, 502
\* if the upstream request fails, otherwise the JSON answer; the same request
\* gets the same outcome on both routes.
C30_ReplayOutcomeAsStated ==
    \A r \in Routes :
        outcome[r].Status # 0 =>
           /\ ReplayErrorsBeforeUpstream(r)
           /\ (replayReq.Method = "POST" /\ IdIsHeld /\ localPort # "") =>
                 outcome[r].Status = IF upstreamUp THEN 200 ELSE 502

\* C30, amended: as stated, and 500 also when the request cannot be rebuilt
\* from the stored exchange; 502 and the JSON answer only when it can.
C30_ReplayOutcome ==
    \A r \in Routes :
        outcome[r].Status # 0 =>
           /\ ReplayErrorsBeforeUpstream(r)
           /\ (replayReq.Method = "POST" /\ IdIsHeld /\ localPort # "") =>
                 outcome[r].Status =
                    IF NewRequestFails(ParseInt(replayReq.ID).val) THEN 500
                    ELSE IF upstreamUp THEN 200 ELSE 502

C30_Witness ==
    /\ replayReq.Method = "POST"
    /\ localPort = "3000"
    /\ upstreamUp
    /\ \A r \in Routes : outcome[r] = Answer(500, "Failed to create request")

\* C36: a replay, whatever its outcome, leaves the store's exchanges and ID
\* counter as they were, records no new exchange, and changes nothing in the
\* tunnel session or its workers.
C36_ReplayLeavesStoreAndTunnel ==
    /\ [][ outcome' # outcome =>
              /\ pkgExchanges' = pkgExchanges
              /\ pkgNextID' = pkgNextID
              /\ pkgAdded' = pkgAdded
              /\ storeVars' = storeVars
              /\ tunnelVars' = tunnelVars ]_vars
    /\ [](Len(pkgAdded) = pkgNextID /\ Len(pkgExchanges) = pkgNextID)

C36_Witness ==
    /\ outcome["/api/replay/"].Status = 200
    /\ outcome["/api/exchanges/replay/"].Status = 200
    /\ Len(pkgExchanges) = 2
    /\ pkgNextID = 2

-----------------------------------------------------------------------------
(* The terminal dashboard (package tui: NewModel, Init, Update,            *)
(* handleEvent, waitForEvent).                                             *)

\* Number of events the bus puts on the dashboard's endpoint.
MaxEvents == 3
\* Number of request_complete events in the long run of requests.
MaxRequestEvents == 11
\* NewModel: maxRequests.
DefaultMaxRequests == 10

\* An event whose Data is not of the type its kind goes with.
NoData == [kind |-> "none"]

LifecycleTypes == {"connecting", "connected", "disconnected", "reconnecting"}

LifecycleEvents ==
    { [Type |-> t, Data |-> NoData] :
         t \in {"connecting", "disconnected", "reconnecting"} }
    \cup { [Type |-> "connected",
            Data |-> [kind |-> "ConnectedData", ServerAddr |-> "localhost:4443"]] }

TunnelReadyEvents ==
    { [Type |-> "tunnel_ready",
       Data |-> [kind |-> "TunnelReadyData", Name |-> "web", LocalPort |-> pd[1],
                 BoundDomains |-> pd[2], Scheme |-> "https"]] :
         pd \in { <<"3000", <<"misty-river">> >>,
                  <<"8080", <<"bold-field", "calm-lake">> >> } }
    \cup { [Type |-> "tunnel_ready", Data |-> NoData] }

\* The n-th request the tunnel served.
RequestComplete(n) ==
    [Type |-> "request_complete",
     Data |-> [kind |-> "RequestData", Method |-> "GET", Path |-> n,
               Status |-> 200]]

ErrorEvent ==
    [Type |-> "error",
     Data |-> [kind |-> "ErrorData", Context |-> "tunnel", Error |-> "EOF"]]

DashboardEvents ==
    LifecycleEvents \cup TunnelReadyEvents \cup {RequestComplete(1), ErrorEvent}

\* tui.Run: NewModel(eventBus, stats) subscribes to the bus, and the program
\* calls Init, which issues the first waitForEvent command.
Run ==
    /\ model = [status |-> "connecting", tunnels |-> <<>>, requests |-> <<>>,
                maxRequests |-> DefaultMaxRequests, serverAddr |-> "",
                lastError |-> "", width |-> 0, height |-> 0]
    /\ eventSub = [buf |-> <<>>, closed |-> FALSE]
    /\ prog = [waits |-> 1, inflight |-> <<>>, last |-> "none", quit |-> FALSE]
    /\ delivered = <<>>
    /\ applied = <<>>

\* A handler that gives each tunnel_ready event an entry of its own.
MergeTunnelAlwaysAppends(tunnels, data) ==
    Append(tunnels, [Name |-> data.Name, LocalPort |-> data.LocalPort,
                     BoundDomains |-> data.BoundDomains,
                     Scheme |-> data.Scheme])

\* A handler that leaves out the domains the entry already has.
MergeTunnelDedup(tunnels, data) ==
    IF \E i \in 1..Len(tunnels) : tunnels[i].LocalPort = data.LocalPort
    THEN LET i == CHOOSE k \in 1..Len(tunnels) :
                     /\ tunnels[k].LocalPort = data.LocalPort
                     /\ \A j \in 1..(k - 1) :
                           tunnels[j].LocalPort # data.LocalPort
         IN  [tunnels EXCEPT ![i].BoundDomains =
                 @ \o SelectSeq(data.BoundDomains, LAMBDA d : ~InSeq(d, @))]
    ELSE Append(tunnels, [Name |-> data.Name, LocalPort |-> data.LocalPort,
                          BoundDomains |-> data.BoundDomains,
                          Scheme |-> data.Scheme])

\* handleEvent, case EventTunnelReady: the first entry with the event's local
\* port gets the event's domains appended; when there is none, a new entry is
\* appended.
MergeTunnel(tunnels, data) ==
    IF \E i \in 1..Len(tunnels) : tunnels[i].LocalPort = data.LocalPort
    THEN LET i == CHOOSE k \in 1..Len(tunnels) :
                     /\ tunnels[k].LocalPort = data.LocalPort
                     /\ \A j \in 1..(k - 1) :
                           tunnels[j].LocalPort # data.LocalPort
         IN  [tunnels EXCEPT ![i].BoundDomains = @ \o data.BoundDomains]
    ELSE Append(tunnels, [Name |-> data.Name, LocalPort |-> data.LocalPort,
                          BoundDomains |-> data.BoundDomains,
                          Scheme |-> data.Scheme])

\* A handler that keeps every request.
PrependRequestUncapped(requests, entry, max) == <<entry>> \o requests

\* handleEvent, case EventRequestComplete: the entry goes to the front and the
\* list is cut to its first maxRequests entries.
PrependRequest(requests, entry, max) ==
    LET all == <<entry>> \o requests
    IN  IF Len(all) > max THEN SubSeq(all, 1, max) ELSE all

\* The RequestEntry made from a request_complete event's data.
EntryOf(data) ==
    [Method |-> data.Method, Path |-> data.Path, Status |-> data.Status]

\* A handler for which a ready tunnel means that the client is online.
handleEventReadyOnline(m, event) ==
    CASE event.Type = "connecting" -> [m EXCEPT !.status = "connecting"]
      [] event.Type = "connected" ->
            IF event.Data.kind = "ConnectedData"
            THEN [m EXCEPT !.status = "online",
                           !.serverAddr = event.Data.ServerAddr]
            ELSE [m EXCEPT !.status = "online"]
      [] event.Type = "disconnected" -> [m EXCEPT !.status = "offline"]
      [] event.Type = "reconnecting" -> [m EXCEPT !.status = "reconnecting"]
      [] event.Type = "tunnel_ready" ->
            IF event.Data.kind = "TunnelReadyData"
            THEN [m EXCEPT !.status = "online",
                           !.tunnels = MergeTunnel(@, event.Data)]
            ELSE m
      [] event.Type = "request_complete" ->
            IF event.Data.kind = "RequestData"
            THEN [m EXCEPT !.requests =
                     PrependRequest(@, EntryOf(event.Data), m.maxRequests)]
            ELSE m
      [] event.Type = "error" ->
            IF event.Data.kind = "ErrorData"
            THEN [m EXCEPT !.lastError = <<event.Data.Context, event.Data.Error>>]
            ELSE m
      [] OTHER -> m

\* Model.handleEvent(event).
handleEvent(m, event) ==
    CASE event.Type = "connecting" -> [m EXCEPT !.status = "connecting"]
      [] event.Type = "connected" ->
            IF event.Data.kind = "ConnectedData"
            THEN [m EXCEPT !.status = "online",
                           !.serverAddr = event.Data.ServerAddr]
            ELSE [m EXCEPT !.status = "online"]
      [] event.Type = "disconnected" -> [m EXCEPT !.status = "offline"]
      [] event.Type = "reconnecting" -> [m EXCEPT !.status = "reconnecting"]
      [] event.Type = "tunnel_ready" ->
            IF event.Data.kind = "TunnelReadyData"
            THEN [m EXCEPT !.tunnels = MergeTunnel(@, event.Data)]
            ELSE m
      [] event.Type = "request_complete" ->
            IF event.Data.kind = "RequestData"
            THEN [m EXCEPT !.requests =
                     PrependRequest(@, EntryOf(event.Data), m.maxRequests)]
            ELSE m
      [] event.Type = "error" ->
            IF event.Data.kind = "ErrorData"
            THEN [m EXCEPT !.lastError = <<event.Data.Context, event.Data.Error>>]
            ELSE m
      [] OTHER -> m

\* The bus puts the event on the endpoint's queue.
Deliver(event) ==
    /\ ~eventSub.closed
    /\ eventSub' = [eventSub EXCEPT !.buf = Append(@, event)]
    /\ delivered' = Append(delivered, event)
    /\ UNCHANGED << model, prog, applied, outsideTui >>

\* The bus closes the endpoint (Unsubscribe or Close).
CloseEndpoint ==
    /\ ~eventSub.closed
    /\ eventSub' = [eventSub EXCEPT !.closed = TRUE]
    /\ UNCHANGED << model, prog, delivered, applied, outsideTui >>

\* The command waitForEvent returned comes back from its receive: with the
\* queue's first event as an eventMsg, or with nil when the endpoint is
\* closed and empty.  It blocks while the endpoint is open and empty.
WaitReceives ==
    /\ prog.waits > 0
    /\ IF eventSub.buf # <<>>
       THEN /\ prog' = [prog EXCEPT !.waits = @ - 1,
                                    !.inflight = Append(@, Head(eventSub.buf))]
            /\ eventSub' = [eventSub EXCEPT !.buf = Tail(@)]
       ELSE /\ eventSub.closed
            /\ prog' = [prog EXCEPT !.waits = @ - 1]
            /\ UNCHANGED eventSub
    /\ UNCHANGED << model, delivered, applied, outsideTui >>

\* Update(eventMsg): handleEvent, and a new waitForEvent command.
UpdateEvent ==
    /\ ~prog.quit
    /\ prog.inflight # <<>>
    /\ model' = handleEvent(model, Head(prog.inflight))
    /\ applied' = Append(applied, Head(prog.inflight))
    /\ prog' = [prog EXCEPT !.inflight = Tail(@), !.waits = @ + 1,
                            !.last = "event"]
    /\ UNCHANGED << eventSub, delivered, outsideTui >>

\* A dashboard that also waits for an event after each tick.
UpdateTickWaits ==
    /\ ~prog.quit
    /\ prog' = [prog EXCEPT !.last = "tick", !.waits = @ + 1]
    /\ UNCHANGED << model, eventSub, delivered, applied, outsideTui >>

\* Update(tickMsg): the model as it is, and the next tick command.
UpdateTick ==
    /\ ~prog.quit
    /\ prog' = [prog EXCEPT !.last = "tick"]
    /\ UNCHANGED << model, eventSub, delivered, applied, outsideTui >>

\* Update(tea.WindowSizeMsg): the new size, and no command.
UpdateResize(w, h) ==
    /\ ~prog.quit
    /\ model' = [model EXCEPT !.width = w, !.height = h]
    /\ prog' = [prog EXCEPT !.last = "resize"]
    /\ UNCHANGED << eventSub, delivered, applied, outsideTui >>

\* Update(tea.KeyMsg): tea.Quit for "q" and "ctrl+c", no command otherwise.
UpdateKey(key) ==
    /\ ~prog.quit
    /\ prog' = [prog EXCEPT !.last = "key", !.quit = key \in {"q", "ctrl+c"}]
    /\ UNCHANGED << model, eventSub, delivered, applied, outsideTui >>

\* The dashboard fed with events of every kind.
NextTui ==
    \/ \E event \in DashboardEvents :
          Len(delivered) < MaxEvents /\ Deliver(event)
    \/ CloseEndpoint
    \/ WaitReceives
    \/ UpdateEvent

\* The dashboard fed with a long run of requests, between ticks, resizes and
\* keys.
NextTuiLoop ==
    \/ Len(delivered) < MaxRequestEvents
          /\ Deliver(RequestComplete(Len(delivered) + 1))
    \/ CloseEndpoint
    \/ WaitReceives
    \/ UpdateEvent
    \/ UpdateTick
    \/ UpdateResize(80, 24)
    \/ \E key \in {"q", "ctrl+c", "x"} : UpdateKey(key)

-----------------------------------------------------------------------------
(* Properties of the dashboard. *)

\* The status a lifecycle event stands for.
StatusFor(type) ==
    CASE type = "connecting" -> "connecting"
      [] type = "connected" -> "online"
      [] type = "disconnected" -> "offline"
      [] type = "reconnecting" -> "reconnecting"

\* The places of the lifecycle events among the events applied.
LifecycleAt == { i \in 1..Len(applied) : applied[i].Type \in LifecycleTypes }

\* The event the step applies, when the step is a call of handleEvent.
Applies == applied' # applied
Applying == applied'[Len(applied')]

\* C31: the status shown is the one of the most recent lifecycle event applied
\* (connecting, online for connected, offline for disconnected,
\* reconnecting), and "connecting" before the first; tunnel_ready,
\* request_complete and error events leave it as it is.
C31_StatusFollowsLifecycle ==
    /\ [](model.status =
             IF LifecycleAt = {} THEN "connecting"
             ELSE StatusFor(applied[CHOOSE i \in LifecycleAt :
                                       \A j \in LifecycleAt : j <= i].Type))
    /\ [][ (Applies /\ Applying.Type \notin LifecycleTypes)
              => model'.status = model.status ]_vars

C31_Witness ==
    /\ Len(applied) = 3
    /\ applied[1].Type = "reconnecting"
    /\ applied[2].Type = "connected"
    /\ applied[3].Type = "tunnel_ready"
    /\ applied[3].Data.kind = "TunnelReadyData"
    /\ model.status = "online"

\* The local ports of the entries of the tunnel list.
PortsOf(tunnels) == { tunnels[i].LocalPort : i \in 1..Len(tunnels) }

\* C32: the tunnel list has at most one entry for a local port; a tunnel_ready
\* event for a port not in the list appends one entry made from the event;
\* one for a port in the list appends the event's domains to that port's
\* entry and changes no other entry and no other field.
C32_TunnelListKeyedByPort ==
    /\ [](\A i, j \in 1..Len(model.tunnels) :
              model.tunnels[i].LocalPort = model.tunnels[j].LocalPort => i = j)
    /\ [][ (Applies /\ Applying.Type = "tunnel_ready"
               /\ Applying.Data.kind = "TunnelReadyData") =>
             LET data == Applying.Data
                 old == model.tunnels
                 new == model'.tunnels
             IN  IF data.LocalPort \notin PortsOf(old)
                 THEN new = Append(old,
                               [Name |-> data.Name, LocalPort |-> data.LocalPort,
                                BoundDomains |-> data.BoundDomains,
                                Scheme |-> data.Scheme])
                 ELSE /\ Len(new) = Len(old)
                      /\ \A i \in 1..Len(old) :
                            new[i] =
                               IF old[i].LocalPort = data.LocalPort
                               THEN [old[i] EXCEPT !.BoundDomains =
                                        @ \o data.BoundDomains]
                               ELSE old[i] ]_vars

C32_Witness ==
    /\ Len(applied) = 3
    /\ Len(model.tunnels) = 2
    /\ model.tunnels[1].LocalPort = "3000"
    /\ model.tunnels[1].BoundDomains = <<"misty-river", "misty-river">>
    /\ model.tunnels[2].LocalPort = "8080"
    /\ model.tunnels[2].BoundDomains = <<"bold-field", "calm-lake">>

\* The request_complete events applied, oldest first.
RequestsApplied ==
    SelectSeq(applied, LAMBDA event : /\ event.Type = "request_complete"
                                      /\ event.Data.kind = "RequestData")

\* C33: after n request_complete events the recent-requests list holds the
\* most recent min(n, max) of them, newest first, where max is 10; its length
\* never exceeds max, and what is dropped is the oldest.
C33_RecentRequestsNewestFirst ==
    LET n == Len(RequestsApplied)
        kept == IF n < model.maxRequests THEN n ELSE model.maxRequests
    IN  /\ model.maxRequests = DefaultMaxRequests
        /\ Len(model.requests) <= model.maxRequests
        /\ model.requests =
              [ i \in 1..kept |-> EntryOf(RequestsApplied[n + 1 - i].Data) ]

C33_Witness ==
    /\ Len(applied) = MaxRequestEvents
    /\ Len(model.requests) = DefaultMaxRequests
    /\ model.requests[1].Path = MaxRequestEvents
    /\ model.requests[DefaultMaxRequests].Path =
          MaxRequestEvents - DefaultMaxRequests + 1

RECURSIVE DomainsCarried(_, _)
\* Number of domains the tunnel_ready events of the history carry for a port.
DomainsCarried(history, port) ==
    IF history = <<>> THEN 0
    ELSE LET event == Head(history)
         IN  (IF /\ event.Type = "tunnel_ready"
                 /\ event.Data.kind = "TunnelReadyData"
                 /\ event.Data.LocalPort = port
              THEN Len(event.Data.BoundDomains) ELSE 0)
             + DomainsCarried(Tail(history), port)

\* C38: lifecycle events leave the tunnel list as it is, and no event removes
\* an entry or a domain; the entry of a port has as many domains as all the
\* tunnel_ready events applied for that port carried, repeats included.
C38_TunnelListOnlyGrows ==
    /\ [][ (Applies /\ Applying.Type \in LifecycleTypes)
              => model'.tunnels = model.tunnels ]_vars
    /\ [][ /\ Len(model'.tunnels) >= Len(model.tunnels)
           /\ \A i \in 1..Len(model.tunnels) :
                 /\ model'.tunnels[i].LocalPort = model.tunnels[i].LocalPort
                 /\ IsPrefix(model.tunnels[i].BoundDomains,
                             model'.tunnels[i].BoundDomains) ]_vars
    /\ [](\A i \in 1..Len(model.tunnels) :
              Len(model.tunnels[i].BoundDomains) =
                 DomainsCarried(applied, model.tunnels[i].LocalPort))
    /\ [](\A port \in {"3000", "8080"} :
              port \notin PortsOf(model.tunnels)
                 => DomainsCarried(applied, port) = 0)

C38_Witness ==
    /\ Len(applied) = 3
    /\ applied[1].Type = "tunnel_ready"
    /\ applied[2].Type = "disconnected"
    /\ applied[3] = applied[1]
    /\ Len(model.tunnels) = 1
    /\ model.tunnels[1].BoundDomains = <<"misty-river", "misty-river">>

\* C39: handling an event message issues exactly one new wait on the endpoint
\* and nothing else issues one: not a tick, a resize or a key, and not a wait
\* that found the endpoint closed; at most one wait is outstanding; the events
\* are applied in the order the bus delivered them, each once.
C39_OneWaitPerEvent ==
    /\ [](prog.waits + Len(prog.inflight) <= 1)
    /\ [][ Applies => /\ prog.inflight # <<>>
                      /\ applied' = Append(applied, Head(prog.inflight))
                      /\ prog'.waits = prog.waits + 1 ]_vars
    /\ [][ prog'.waits > prog.waits => Applies ]_vars
    /\ [][ (eventSub.closed /\ eventSub.buf = <<>> /\ prog.inflight = <<>>
              /\ prog.waits = 0)
           => (prog'.waits = 0 /\ prog'.inflight = <<>>) ]_vars
    /\ [](delivered = applied \o prog.inflight \o eventSub.buf)

C39_Witness ==
    /\ eventSub.closed
    /\ Len(delivered) = 2
    /\ applied = delivered
    /\ prog.waits = 0 /\ prog.inflight = <<>>
    /\ prog.last = "tick"
    /\ ~prog.quit

-----------------------------------------------------------------------------
(* The start command (package config: startCmd).                           *)

\* The command is called: with the saved token (empty when none is saved),
\* with or without a config file that loads, with the number of arguments,
\* with or without a gopublic.yaml, with or without the flag --all.
StartCommand(token, loadOk, nargs, project, all) ==
    startCmd = [pc |-> "load", exit |-> -1, err |-> "none",
                inspector |-> FALSE, manager |-> FALSE, Token |-> token,
                loadOk |-> loadOk, nargs |-> nargs, project |-> project,
                all |-> all]

\* log.Fatal, log.Fatalf: the process exits with status 1.
Fatal(c) == [c EXCEPT !.pc = "exited", !.exit = 1]

\* A command for which a cancelled tunnel is a failed tunnel.
ExitAfterAnyError(c, err) ==
    IF err # "none" THEN Fatal([c EXCEPT !.err = err])
    ELSE [c EXCEPT !.pc = "exited", !.exit = 0, !.err = err]

\* if err != nil { if err != context.Canceled { log.Fatalf(...) } }, then
\* "Tunnel closed" is printed and Run returns: exit status 0.
ExitAfter(c, err) ==
    IF err # "none" /\ err # "Canceled" THEN Fatal([c EXCEPT !.err = err])
    ELSE [c EXCEPT !.pc = "exited", !.exit = 0, !.err = err]

\* config.LoadConfig() and the check of the token.
LoadConfig ==
    /\ startCmd.pc = "load"
    /\ startCmd' = IF ~startCmd.loadOk \/ startCmd.Token = ""
                   THEN Fatal(startCmd)
                   ELSE [startCmd EXCEPT !.pc = "inspector"]
    /\ UNCHANGED << reconnVars, replayVars, outsideStart >>

\* The signal goroutine calls cancel() of the context made by
\* context.WithCancel.
Signal ==
    /\ startCmd.pc \in {"inspector", "manager", "tunnel"}
    /\ Cancel("Canceled")
    /\ UNCHANGED startCmd

\* inspector.Start("4040"), then the choice of the mode: the tunnels of
\* gopublic.yaml with a manager, or one tunnel for the port given, or neither;
\* inspector.SetLocalPort with the port that replays go to.
StartInspector ==
    /\ startCmd.pc = "inspector"
    /\ IF startCmd.project /\ (startCmd.all \/ startCmd.nargs = 0)
       THEN /\ startCmd' = [startCmd EXCEPT !.inspector = TRUE,
                                           !.manager = TRUE, !.pc = "manager"]
            /\ localPort' = "3000"
       ELSE IF startCmd.nargs = 1
       THEN /\ startCmd' = [startCmd EXCEPT !.inspector = TRUE, !.pc = "tunnel"]
            /\ localPort' = "3000"
       ELSE /\ startCmd' = Fatal([startCmd EXCEPT !.inspector = TRUE])
            /\ UNCHANGED localPort
    /\ UNCHANGED << replayReq, upstreamUp, outcome >>
    /\ UNCHANGED << reconnVars, outsideStart >>

\* What manager.StartAll(ctx) returns: nil, the context's error once the
\* context is cancelled, or an error of its tunnels.
StartAllErrors == {"none", "Canceled", "tunnel failed"}

\* manager.StartAll(ctx) returns err.
StartAllReturns(err) ==
    /\ startCmd.pc = "manager"
    /\ err = "Canceled" => CtxDone
    /\ startCmd' = ExitAfter(startCmd, err)
    /\ UNCHANGED << reconnVars, replayVars, outsideStart >>

\* t.StartWithReconnect(ctx, nil) returns.
TunnelReturns ==
    /\ startCmd.pc = "tunnel"
    /\ rpc = "done"
    /\ startCmd' = ExitAfter(startCmd, result.err)
    /\ UNCHANGED << reconnVars, replayVars, outsideStart >>

\* The start command with the reconnect loop it runs.
NextStart ==
    \/ LoadConfig
    \/ Signal
    \/ StartInspector
    \/ \E err \in StartAllErrors : StartAllReturns(err)
    \/ TunnelReturns
    \/ startCmd.pc = "tunnel" /\ ReturnCancelled
    \/ startCmd.pc = "tunnel" /\ BeginAttempt
    \/ startCmd.pc = "tunnel" /\ DialFails
    \/ startCmd.pc = "tunnel" /\ DialSucceeds
    \/ startCmd.pc = "tunnel" /\ HandshakeFails
    \/ startCmd.pc = "tunnel" /\ HandshakeSucceeds
    \/ startCmd.pc = "tunnel" /\ AcceptFails
    \/ startCmd.pc = "tunnel" /\ AfterSession
    \/ startCmd.pc = "tunnel" /\ WaitElapsed

\* C35: the start command exits with status 0 when its tunnel ended because
\* the cancellation signal fired and with a nonzero status when it ended with
\* any other error; with no saved token it exits nonzero, and neither the
\* inspector nor a tunnel is ever started.
C35_ExitStatus ==
    /\ (startCmd.pc = "exited" /\ startCmd.err = "Canceled") =>
          (startCmd.exit = 0 /\ CtxDone)
    /\ (startCmd.pc = "exited" /\ startCmd.err \notin {"none", "Canceled"}) =>
          startCmd.exit # 0
    /\ (startCmd.pc = "exited" /\ result.kind = "cancelled") =>
          (startCmd.err = "Canceled" /\ startCmd.exit = 0)
    /\ startCmd.Token = "" =>
          /\ startCmd.pc \in {"load", "exited"}
          /\ startCmd.pc = "exited" => startCmd.exit # 0
          /\ ~startCmd.inspector /\ ~startCmd.manager
          /\ started = 0

C35_Witness ==
    /\ startCmd.pc = "exited"
    /\ startCmd.exit = 0
    /\ result = [kind |-> "cancelled", err |-> "Canceled"]
    /\ started = 2
    /\ startCmd.inspector

-----------------------------------------------------------------------------
(* Specifications. *)

InitSpecBus ==
    /\ InitBus /\ NewWithOptions(0) /\ NewInMemoryStore(0) /\ InitPkg
    /\ StartWithReconnect(DefaultReconnectConfig)
    /\ TunnelStart /\ InitInspect /\ Message(ZeroAuthRequest)
    /\ ReplayRequest([Method |-> "POST", ID |-> "0"], "", TRUE)
    /\ Run /\ StartCommand("token", TRUE, 1, FALSE, FALSE)

SpecBus == InitSpecBus /\ [][NextBus]_vars

InitSpecStats ==
    /\ NewBusWithBuffer(1) /\ InitStats /\ NewInMemoryStore(0) /\ InitPkg
    /\ StartWithReconnect(DefaultReconnectConfig)
    /\ TunnelStart /\ InitInspect /\ Message(ZeroAuthRequest)
    /\ ReplayRequest([Method |-> "POST", ID |-> "0"], "", TRUE)
    /\ Run /\ StartCommand("token", TRUE, 1, FALSE, FALSE)

SpecStats == InitSpecStats /\ [][NextStats]_vars

InitSpecRing ==
    /\ NewBusWithBuffer(1) /\ InitRing /\ NewInMemoryStore(0) /\ InitPkg
    /\ StartWithReconnect(DefaultReconnectConfig)
    /\ TunnelStart /\ InitInspect /\ Message(ZeroAuthRequest)
    /\ ReplayRequest([Method |-> "POST", ID |-> "0"], "", TRUE)
    /\ Run /\ StartCommand("token", TRUE, 1, FALSE, FALSE)

SpecRing == InitSpecRing /\ [][NextRing]_vars

InitSpecStore ==
    /\ NewBusWithBuffer(1) /\ NewWithOptions(0) /\ InitStore
    /\ StartWithReconnect(DefaultReconnectConfig)
    /\ TunnelStart /\ InitInspect /\ Message(ZeroAuthRequest)
    /\ ReplayRequest([Method |-> "POST", ID |-> "0"], "", TRUE)
    /\ Run /\ StartCommand("token", TRUE, 1, FALSE, FALSE)

SpecStore == InitSpecStore /\ [][NextStore]_vars

SpecStoreIDs == InitSpecStore /\ [][NextStoreIDs]_vars

SpecStoreCopy == InitSpecStore /\ [][NextStoreCopy]_vars

InitSpecReconn ==
    /\ NewBusWithBuffer(1) /\ NewWithOptions(0) /\ NewInMemoryStore(0) /\ InitPkg
    /\ InitReconn
    /\ TunnelStart /\ InitInspect /\ Message(ZeroAuthRequest)
    /\ ReplayRequest([Method |-> "POST", ID |-> "0"], "", TRUE)
    /\ Run /\ StartCommand("token", TRUE, 1, FALSE, FALSE)

\* The loop and the session run in a goroutine that the scheduler does not
\* starve, and the timer of a wait fires: a step of the loop that stays
\* possible is taken.  Sessions may last forever.
SpecReconn == InitSpecReconn /\ [][NextReconn]_vars /\ WF_vars(LoopStep)

InitSpecTunnel ==
    /\ NewBusWithBuffer(1) /\ NewWithOptions(0) /\ NewInMemoryStore(0) /\ InitPkg
    /\ StartWithReconnect(DefaultReconnectConfig)
    /\ (\E addr \in ServerAddrs : NewTunnel(addr)) /\ InitInspect /\ Message(ZeroAuthRequest)
    /\ ReplayRequest([Method |-> "POST", ID |-> "0"], "", TRUE)
    /\ Run /\ StartCommand("token", TRUE, 1, FALSE, FALSE)

SpecTunnel == InitSpecTunnel /\ [][NextTunnel]_vars

InitSpecInspect ==
    /\ NewBusWithBuffer(1) /\ NewWithOptions(0) /\ NewInMemoryStore(0) /\ InitPkg
    /\ StartWithReconnect(DefaultReconnectConfig)
    /\ TunnelStart /\ InitInspect /\ Message(ZeroAuthRequest)
    /\ ReplayRequest([Method |-> "POST", ID |-> "0"], "", TRUE)
    /\ Run /\ StartCommand("token", TRUE, 1, FALSE, FALSE)

SpecInspect == InitSpecInspect /\ [][NextInspect]_vars

InitSpecWire ==
    /\ NewBusWithBuffer(1) /\ NewWithOptions(0) /\ NewInMemoryStore(0) /\ InitPkg
    /\ StartWithReconnect(DefaultReconnectConfig)
    /\ TunnelStart /\ InitInspect /\ InitWire
    /\ ReplayRequest([Method |-> "POST", ID |-> "0"], "", TRUE)
    /\ Run /\ StartCommand("token", TRUE, 1, FALSE, FALSE)

SpecWire == InitSpecWire /\ [][NextWire]_vars

InitSpecReplay ==
    /\ NewBusWithBuffer(1) /\ NewWithOptions(0) /\ NewInMemoryStore(0)
    /\ StartWithReconnect(DefaultReconnectConfig)
    /\ TunnelStart /\ InitInspect /\ Message(ZeroAuthRequest)
    /\ InitReplay
    /\ Run /\ StartCommand("token", TRUE, 1, FALSE, FALSE)

SpecReplay == InitSpecReplay /\ [][NextReplay]_vars


InitSpecTui ==
    /\ NewBusWithBuffer(1) /\ NewWithOptions(0) /\ NewInMemoryStore(0) /\ InitPkg
    /\ StartWithReconnect(DefaultReconnectConfig)
    /\ TunnelStart /\ InitInspect /\ Message(ZeroAuthRequest)
    /\ ReplayRequest([Method |-> "POST", ID |-> "0"], "", TRUE)
    /\ Run /\ StartCommand("token", TRUE, 1, FALSE, FALSE)

SpecTui == InitSpecTui /\ [][NextTui]_vars

SpecTuiLoop == InitSpecTui /\ [][NextTuiLoop]_vars

InitSpecStart ==
    /\ NewBusWithBuffer(1) /\ NewWithOptions(0) /\ NewInMemoryStore(0) /\ InitPkg
    /\ StartWithReconnect(DefaultReconnectConfig)
    /\ TunnelStart /\ InitInspect /\ Message(ZeroAuthRequest)
    /\ ReplayRequest([Method |-> "POST", ID |-> "0"], "", TRUE)
    /\ Run
    /\ \E token \in {"", "token"}, nargs \in {0, 1},
          loadOk, project, all \in BOOLEAN :
          StartCommand(token, loadOk, nargs, project, all)

SpecStart == InitSpecStart /\ [][NextStart]_vars

=============================================================================
